---- MODULE Spec2Model ----
(***************************************************************************)
(* A model of paperseek's federation core: UnifiedSearchClient (dispatch   *)
(* in sequential, parallel and first-only mode, deduplication, required-   *)
(* field filtering), the retry executor and the sliding-window rate        *)
(* limiter.  Each subsystem has its own specification over the shared      *)
(* variables; a specification leaves the other subsystems' variables at    *)
(* their construction values.                                              *)
(***************************************************************************)
EXTENDS Integers, Sequences, FiniteSets, TLC

(***************************************************************************)
(* Bounds of the model.                                                    *)
(***************************************************************************)
\* how many backends a client registers at most
MaxBackends == 2
\* how many records the backends of one search return in total at most
MaxPapers == 2
\* how many records a SearchResult under test holds at most
MaxLen == 3

(***************************************************************************)
(* Values.  A Python str is a sequence of one-character strings; None is   *)
(* a reserved value that is no such sequence of characters.                *)
(***************************************************************************)
None == <<"<None>">>

\* Python truthiness of an Optional[str]: None and "" are falsy
Truthy(s) == s # None /\ s # <<>>

\* x or ""
OrEmpty(s) == IF Truthy(s) THEN s ELSE <<>>

\* str.lower() on one character of the alphabet the model uses
LowerChar(c) ==
    CASE c = "A" -> "a"
      [] c = "B" -> "b"
      [] OTHER   -> c

\* str.lower(): character by character, length and whitespace kept
Lower(s) == [i \in DOMAIN s |-> LowerChar(s[i])]

\* the nine adapters UnifiedSearchClient knows, in the order of the dict
AvailableClients ==
    << "crossref", "openalex", "semantic_scholar", "doi", "pubmed",
       "arxiv", "core", "unpaywall", "dblp" >>

\* the fallback modes a caller can pass; "bogus" stands for any other string
Modes == {"sequential", "parallel", "first", "bogus"}

(***************************************************************************)
(* Paper: the fields of the schema that identity, filtering and            *)
(* provenance read.                                                        *)
(***************************************************************************)
MkPaper(doi, pmid, arxiv, title, abstract, src) ==
    [doi |-> doi, pmid |-> pmid, arxiv_id |-> arxiv, title |-> title,
     abstract |-> abstract, keywords |-> <<>>, source_database |-> src]

\* the field names of the modelled schema, as model_dump() lists them
PaperFields ==
    {"doi", "pmid", "arxiv_id", "title", "abstract", "keywords", "source_database"}

\* the fields of the modelled schema whose value is a list
ListFields == {"keywords"}

\* Paper.get_available_fields: the dumped fields that are not None, a list
\* only when it is not empty, without the three the method skips (of which
\* the model has source_database)
get_available_fields(p) ==
    {f \in PaperFields \ {"source_database"} :
        /\ p[f] # None
        /\ f \in ListFields => p[f] # <<>>}

\* the identifier tuple _deduplicate_results builds for a paper
paper_id(p) ==
    << OrEmpty(p.doi), OrEmpty(p.pmid), OrEmpty(p.arxiv_id),
       IF p.title # <<>> THEN Lower(p.title) ELSE <<>> >>

\* any(paper_id): some component is a non-empty string
AnyId(k) == \E i \in 1..4 : k[i] # <<>>

(***************************************************************************)
(* _deduplicate_results: one pass over the list with the set of seen       *)
(* identifier tuples.                                                      *)
(***************************************************************************)
RECURSIVE DedupLoop(_, _, _, _)
DedupLoop(papers, i, seen_ids, unique_papers) ==
    IF i > Len(papers) THEN unique_papers
    ELSE LET pid == paper_id(papers[i])
         IN  IF pid \notin seen_ids /\ AnyId(pid)
             THEN DedupLoop(papers, i + 1, seen_ids \cup {pid},
                            Append(unique_papers, papers[i]))
             ELSE DedupLoop(papers, i + 1, seen_ids, unique_papers)

\* the classic slip of removing from the list that is being iterated: the
\* record after a removed duplicate is skipped by the iterator
RECURSIVE DedupLoopInPlace(_, _, _)
DedupLoopInPlace(papers, i, seen_ids) ==
    IF i > Len(papers) THEN papers
    ELSE LET pid == paper_id(papers[i])
         IN  IF pid \notin seen_ids /\ AnyId(pid)
             THEN DedupLoopInPlace(papers, i + 1, seen_ids \cup {pid})
             ELSE DedupLoopInPlace(
                      SubSeq(papers, 1, i - 1) \o SubSeq(papers, i + 1, Len(papers)),
                      i + 1, seen_ids)

DeduplicateInPlace(papers) == DedupLoopInPlace(papers, 1, {})

\* a deduplicator that forgets the any(paper_id) test
RECURSIVE DedupLoopKeepEmpty(_, _, _, _)
DedupLoopKeepEmpty(papers, i, seen_ids, unique_papers) ==
    IF i > Len(papers) THEN unique_papers
    ELSE LET pid == paper_id(papers[i])
         IN  IF pid \notin seen_ids
             THEN DedupLoopKeepEmpty(papers, i + 1, seen_ids \cup {pid},
                                     Append(unique_papers, papers[i]))
             ELSE DedupLoopKeepEmpty(papers, i + 1, seen_ids, unique_papers)

DeduplicateKeepEmpty(papers) == DedupLoopKeepEmpty(papers, 1, {}, <<>>)

Deduplicate(papers) == DedupLoop(papers, 1, {}, <<>>)

\* a filter that builds its list back to front
RECURSIVE FilterRequiredReversed(_, _)
FilterRequiredReversed(papers, required) ==
    IF papers = <<>> THEN <<>>
    ELSE LET rest == FilterRequiredReversed(Tail(papers), required)
         IN  IF required \subseteq get_available_fields(Head(papers))
             THEN rest \o <<Head(papers)>>
             ELSE rest

\* SearchResult.filter_by_required_fields on the paper list
RECURSIVE FilterRequired(_, _)
FilterRequired(papers, required) ==
    IF papers = <<>> THEN <<>>
    ELSE LET rest == FilterRequired(Tail(papers), required)
         IN  IF required \subseteq get_available_fields(Head(papers))
             THEN <<Head(papers)>> \o rest
             ELSE rest

(***************************************************************************)
(* SearchResult: papers, total_results, databases_queried.                 *)
(***************************************************************************)
EmptyResult == [papers |-> <<>>, total_results |-> 0, databases_queried |-> <<>>]

\* an extend that puts the new papers in front of the list
ExtendInFront(r, papers) ==
    [r EXCEPT !.papers = papers \o r.papers,
              !.total_results = Len(papers \o r.papers)]

\* SearchResult.extend
Extend(r, papers) ==
    [r EXCEPT !.papers = r.papers \o papers,
              !.total_results = Len(r.papers \o papers)]

\* SearchResult.add_paper
AddPaper(r, p) ==
    [r EXCEPT !.papers = Append(r.papers, p),
              !.total_results = Len(r.papers) + 1]

\* a deduplication that replaces the list and leaves total_results as it was
DeduplicateResultsStaleTotal(r) == [r EXCEPT !.papers = Deduplicate(r.papers)]

\* _deduplicate_results on a SearchResult
DeduplicateResults(r) ==
    LET unique_papers == Deduplicate(r.papers)
    IN  [r EXCEPT !.papers = unique_papers, !.total_results = Len(unique_papers)]

\* filter_by_required_fields on a SearchResult
FilterByRequiredFields(r, required) ==
    LET filtered_papers == FilterRequired(r.papers, required)
    IN  [r EXCEPT !.papers = filtered_papers, !.total_results = Len(filtered_papers)]

\* the tail of _search_parallel and _search_sequential: deduplicate, then
\* filter when the query lists required fields
MergeAndFilter(r, required) ==
    LET d == DeduplicateResults(r)
    IN  IF required # {} THEN FilterByRequiredFields(d, required) ELSE d

(***************************************************************************)
(* State.                                                                  *)
(***************************************************************************)
VARIABLES
    \* UnifiedSearchClient and one search_with_filters call on it
    fail_fast,        \* config.fail_fast
    fallback_mode,    \* self.fallback_mode
    clients,          \* the keys of self.clients, in registration order
    required_fields,  \* filters.required_fields of the call
    pc,               \* where the call is
    status,           \* per backend: "idle", "running", "ok" or "failed"
    response,         \* per backend: the papers its search returned
    doneQ,            \* the backends whose future has completed, in completion order
    yieldQ,           \* the backends as_completed yields, in its order
    nproc,            \* how many futures the loop over as_completed has handled
    idx,              \* the position of the sequential loop in clients
    results,          \* the SearchResult being built, then the one returned
    collected,        \* results.papers as it was handed to _deduplicate_results
    calls,            \* the backends whose search was invoked, in invocation order
    error,            \* the exception that left the call, or "none"
    \* a SearchResult object and the operations applied to it
    sr,               \* the SearchResult
    sr_op,            \* the last operation applied to it
    sr_prev,          \* sr.papers before that operation (for dedup and filter)
    sr_prev_op,       \* the operation applied before the last one
    \* one call through the retry executor
    max_retries,      \* max_retries
    max_delay,        \* max_delay, in milliseconds
    jitter,           \* jitter
    retry_on,         \* retry_on: a set of exception classes
    rt_pc,            \* "idle", "calling", "sleeping", "returned" or "raised"
    retries,          \* the local retries
    current_delay,    \* the delay of the sleep being taken, in milliseconds
    attempts,         \* how many times func has been invoked
    nfail,            \* how many of these invocations raised an exception
    nsleeps,          \* how many backoff sleeps have been taken
    rt_last,          \* the exception the last invocation raised, or NoError
    rt_raised,        \* the exception that left the executor, or NoError
    \* one SimpleRateLimiter and the threads that call wait_if_needed on it;
    \* times are in half-seconds
    requests_per_second,  \* the per-second cap, 0 for None
    requests_per_minute,  \* the per-minute cap, 0 for None
    second_window,    \* self._second_window
    minute_window,    \* self._minute_window
    lock,             \* the thread that holds self._lock, or "free"
    clock,            \* the last value time.time() returned
    lt_pc,            \* per thread: "idle", "blocked" (on the lock) or "sleeping"
    wake,             \* when the sleep of the thread holding the lock ends
    ncalls,           \* how many wait_if_needed calls have been made
    admitted,         \* the timestamp of every call that returned, in order
    \* the limiters of several backends, reached through the clients that own
    \* them or through one DatabaseRateLimiter
    limiters,         \* per backend: its limiter's caps and windows
    limiter_lock,     \* per Lock object of a limiter: the thread holding it, or "free"
    manager_lock,     \* the thread holding DatabaseRateLimiter._lock, or "free"
    db_pc,            \* per thread: where its wait_if_needed call is
    db_target,        \* per thread: the backend whose limiter it calls
    db_clock,         \* the last value time.time() returned
    db_wake,          \* per thread: when its sleep ends
    db_ncalls,        \* how many calls have been made
    db_log,           \* the backend of every call that returned, in order
    \* a field_statistics call on the SearchResult
    stats,            \* the dictionary the call returned, empty before it
    \* the SessionPool class and the threads that call its class methods
    sessions,         \* cls._sessions: database name -> session object
    pool_lock,        \* the thread holding cls._lock, or "free"
    sp_pc,            \* per thread: where its call is
    sp_op,            \* per thread: "get" (get_session) or "close" (close_session)
    sp_db,            \* per thread: the database argument of its call
    sp_new,           \* per thread: the local `session` of get_session
    next_id,          \* the identity of the next object requests.Session() makes
    sp_ncalls,        \* how many calls have been made
    sp_log,           \* what happened under the lock, in order
    \* one StreamingExporter and the calls made on it
    file_handle,      \* self._file_handle: "None" or "file"
    ex_count,         \* self._count
    ex_written,       \* write_paper calls that succeeded since the last open that succeeded
    ex_session,       \* write_paper calls that succeeded since the exporter was last closed
    ex_last,          \* the last call: its name, whether it raised, the state it found
    ex_nops,          \* how many calls have been made
    \* threads calling client.search(mode=...) on the one client
    ov_pc,            \* per thread: where its search call is
    ov_arg,           \* per thread: the mode argument, "None" when not passed
    ov_original,      \* per thread: the local original_mode
    ov_dispatched,    \* per thread: the branch search_with_filters took
    ov_outcome,       \* per thread: "returned" or the error the call raised
    ov_before,        \* self.fallback_mode before the first call
    ov_overlap,       \* whether two calls have been in progress at once
    ov_ncalls,        \* how many calls have been made
    \* one SimpleRateLimiter with a per-second cap that is not a whole
    \* number, and one caller; times are in half-seconds
    fr_cap,           \* self.requests_per_second as << numerator, denominator >>
    fr_window,        \* self._second_window
    fr_clock,         \* the last value time.time() returned
    fr_admitted,      \* the timestamp of every call that returned, in order
    fr_ncalls,        \* how many wait_if_needed calls have been made
    \* one get_by_doi call on a UnifiedSearchClient
    gd_clients,       \* list(self.clients.keys())
    gd_databases,     \* the databases argument: None or a list of names
    gd_list,          \* db_list
    gd_idx,           \* the position of the for loop in db_list
    gd_calls,         \* the clients whose get_by_doi was invoked, with outcome
    gd_result,        \* what the call returned
    gd_pc,            \* "idle", "loop", "returned" or "raised"
    \* one PDFDownloader
    pd_overwrite,     \* self.overwrite
    pd_stats,         \* self.stats
    pd_files,         \* the files that exist in the download directory
    pd_last,          \* how the last download_paper call ended
    pd_raised,        \* how many download_paper calls raised
    pd_ncalls         \* how many download_paper calls have been made

orchVars ==
    << fail_fast, fallback_mode, clients, required_fields, pc, status, response,
       doneQ, yieldQ, nproc, idx, results, collected, calls, error >>

srVars == << sr, sr_op, sr_prev, sr_prev_op >>

retryVars ==
    << max_retries, max_delay, jitter, retry_on, rt_pc, retries, current_delay,
       attempts, nfail, nsleeps, rt_last, rt_raised >>

limVars ==
    << requests_per_second, requests_per_minute, second_window, minute_window,
       lock, clock, lt_pc, wake, ncalls, admitted >>

dbVars ==
    << limiters, limiter_lock, manager_lock, db_pc, db_target, db_clock, db_wake,
       db_ncalls, db_log >>

statVars == << stats >>

poolVars ==
    << sessions, pool_lock, sp_pc, sp_op, sp_db, sp_new, next_id, sp_ncalls, sp_log >>

exVars == << file_handle, ex_count, ex_written, ex_session, ex_last, ex_nops >>

ovVars ==
    << ov_pc, ov_arg, ov_original, ov_dispatched, ov_outcome, ov_before,
       ov_overlap, ov_ncalls >>

frVars == << fr_cap, fr_window, fr_clock, fr_admitted, fr_ncalls >>
gdVars == << gd_clients, gd_databases, gd_list, gd_idx, gd_calls, gd_result, gd_pc >>
pdVars == << pd_overwrite, pd_stats, pd_files, pd_last, pd_raised, pd_ncalls >>

vars ==
    << orchVars, srVars, retryVars, limVars, dbVars, statVars, poolVars, exVars,
       ovVars, frVars, gdVars, pdVars >>

\* what a step of one subsystem leaves alone: the other subsystems
OrchFrame == UNCHANGED << srVars, retryVars, limVars, dbVars, statVars, poolVars, exVars, ovVars, frVars, gdVars, pdVars >>
SrFrame == UNCHANGED << orchVars, retryVars, limVars, dbVars, statVars, poolVars, exVars, ovVars, frVars, gdVars, pdVars >>
RetryFrame == UNCHANGED << orchVars, srVars, limVars, dbVars, statVars, poolVars, exVars, ovVars, frVars, gdVars, pdVars >>
LimFrame == UNCHANGED << orchVars, srVars, retryVars, dbVars, statVars, poolVars, exVars, ovVars, frVars, gdVars, pdVars >>
DbFrame == UNCHANGED << orchVars, srVars, retryVars, limVars, statVars, poolVars, exVars, ovVars, frVars, gdVars, pdVars >>
StatFrame == UNCHANGED << orchVars, retryVars, limVars, dbVars, poolVars, exVars, ovVars, frVars, gdVars, pdVars >>
PoolFrame ==
    UNCHANGED << orchVars, srVars, retryVars, limVars, dbVars, statVars, exVars,
                 ovVars, frVars, gdVars, pdVars >>
ExFrame ==
    UNCHANGED << orchVars, srVars, retryVars, limVars, dbVars, statVars, poolVars,
                 ovVars, frVars, gdVars, pdVars >>
\* a search call as far as the mode override goes: of the client it touches
\* fallback_mode only
OvFrame ==
    /\ UNCHANGED << fail_fast, clients, required_fields, pc, status, response,
                    doneQ, yieldQ, nproc, idx, results, collected, calls, error >>
    /\ UNCHANGED << srVars, retryVars, limVars, dbVars, statVars, poolVars, exVars,
                    frVars, gdVars, pdVars >>
FrFrame ==
    UNCHANGED << orchVars, srVars, retryVars, limVars, dbVars, statVars, poolVars,
                 exVars, ovVars, gdVars, pdVars >>
GdFrame ==
    UNCHANGED << orchVars, srVars, retryVars, limVars, dbVars, statVars, poolVars,
                 exVars, ovVars, frVars, pdVars >>
PdFrame ==
    UNCHANGED << orchVars, srVars, retryVars, limVars, dbVars, statVars, poolVars,
                 exVars, ovVars, frVars, gdVars >>

\* the records a backend can return: what its adapter normalised
Templates ==
    { << <<"x">>, None, None, <<"A">>, <<"s">> >>,
      << <<"x">>, None, None, <<"a">>, None >>,
      << None, None, None, <<>>, None >>,
      << <<>>, None, None, <<"B">>, <<"s">> >>,
      << <<"x">>, None, None, <<"B">>, None >> }

\* an adapter stamps its own name on every record it returns
Stamp(t, b) == MkPaper(t[1], t[2], t[3], t[4], t[5], b)

SeqsUpTo(S, n) == UNION {[1..k -> S] : k \in 0..n}

RECURSIVE SumLen(_, _)
SumLen(f, S) ==
    IF S = {} THEN 0
    ELSE LET b == CHOOSE x \in S : TRUE IN Len(f[b]) + SumLen(f, S \ {b})

\* the paper lists backend b may still return within the model's budget
Responses(b) ==
    LET left == MaxPapers - SumLen(response, DOMAIN response)
    IN  {[i \in DOMAIN ts |-> Stamp(ts[i], b)] : ts \in SeqsUpTo(Templates, left)}

Range(q) == {q[i] : i \in DOMAIN q}

Perms(S) == {q \in [1..Cardinality(S) -> S] : \A i, j \in DOMAIN q : i # j => q[i] # q[j]}

Backends == Range(clients)

\* the query's required_fields: none, or one of these lists
RequiredChoices == {{}, {"abstract"}, {"source_database"}}

OrchInit ==
    /\ fail_fast \in BOOLEAN
    /\ fallback_mode \in Modes
    /\ \E n \in 1..MaxBackends : clients = SubSeq(AvailableClients, 1, n)
    /\ required_fields = {}
    /\ pc = "idle"
    /\ status = [b \in Range(clients) |-> "idle"]
    /\ response = [b \in Range(clients) |-> <<>>]
    /\ doneQ = <<>>
    /\ yieldQ = <<>>
    /\ nproc = 0
    /\ idx = 1
    /\ results = EmptyResult
    /\ collected = <<>>
    /\ calls = <<>>
    /\ error = "none"

\* the state of a client on which no search runs, for the specifications of
\* the other subsystems
OrchIdle ==
    /\ fail_fast = FALSE
    /\ fallback_mode = "sequential"
    /\ clients = <<"crossref">>
    /\ required_fields = {}
    /\ pc = "idle"
    /\ status = [b \in {"crossref"} |-> "idle"]
    /\ response = [b \in {"crossref"} |-> <<>>]
    /\ doneQ = <<>>
    /\ yieldQ = <<>>
    /\ nproc = 0
    /\ idx = 1
    /\ results = EmptyResult
    /\ collected = <<>>
    /\ calls = <<>>
    /\ error = "none"

(***************************************************************************)
(* search_with_filters: dispatch on self.fallback_mode.                    *)
(***************************************************************************)
\* a return that treats an empty accumulation list as a failure
ReturnRaisingOnEmpty(r) ==
    IF r.papers = <<>>
    THEN /\ pc' = "raised"
         /\ UNCHANGED << results, collected >>
    ELSE /\ collected' = r.papers
         /\ results' = MergeAndFilter(r, required_fields)
         /\ pc' = "returned"

\* the return of _search_parallel and _search_sequential
Return(r) ==
    /\ collected' = r.papers
    /\ results' = MergeAndFilter(r, required_fields)
    /\ pc' = "returned"

\* fallback_mode is none of the three: ConfigurationError, raised by the call
SearchInvalidMode ==
    /\ pc = "idle"
    /\ fallback_mode \notin {"parallel", "sequential", "first"}
    /\ \E rf \in RequiredChoices : required_fields' = rf
    /\ pc' = "raised"
    /\ error' = "ConfigurationError"
    /\ UNCHANGED << fail_fast, fallback_mode, clients, status, response, doneQ,
                    yieldQ, nproc, idx, results, collected, calls >>
    /\ OrchFrame

(***************************************************************************)
(* _search_parallel.                                                       *)
(***************************************************************************)
\* the with block is entered and every client.search is submitted; with
\* max_workers = len(self.clients) every submitted call starts running
SubmitAll ==
    /\ pc = "idle"
    /\ fallback_mode = "parallel"
    /\ \E rf \in RequiredChoices : required_fields' = rf
    /\ results' = EmptyResult
    /\ status' = [b \in Backends |-> "running"]
    /\ calls' = clients
    /\ pc' = "submitted"
    /\ UNCHANGED << fail_fast, fallback_mode, clients, response, doneQ, yieldQ,
                    nproc, idx, collected, error >>
    /\ OrchFrame

\* a worker's client.search returns papers; once as_completed waits, its
\* waiter lists the future in completion order
WorkerReturn(b) ==
    /\ pc \in {"submitted", "collecting", "aborting"}
    /\ status[b] = "running"
    /\ \E r \in Responses(b) : response' = [response EXCEPT ![b] = r]
    /\ status' = [status EXCEPT ![b] = "ok"]
    /\ doneQ' = Append(doneQ, b)
    /\ yieldQ' = IF pc = "submitted" THEN yieldQ ELSE Append(yieldQ, b)
    /\ UNCHANGED << fail_fast, fallback_mode, clients, required_fields, pc, nproc,
                    idx, results, collected, calls, error >>
    /\ OrchFrame

\* a worker's client.search raises
WorkerRaise(b) ==
    /\ pc \in {"submitted", "collecting", "aborting"}
    /\ status[b] = "running"
    /\ status' = [status EXCEPT ![b] = "failed"]
    /\ doneQ' = Append(doneQ, b)
    /\ yieldQ' = IF pc = "submitted" THEN yieldQ ELSE Append(yieldQ, b)
    /\ UNCHANGED << fail_fast, fallback_mode, clients, required_fields, pc, response,
                    nproc, idx, results, collected, calls, error >>
    /\ OrchFrame

\* as_completed(future_to_db) starts: the futures already finished are
\* yielded first, in the iteration order of a set
AsCompletedBegin ==
    /\ pc = "submitted"
    /\ \E q \in Perms(Range(doneQ)) : yieldQ' = q
    /\ pc' = "collecting"
    /\ UNCHANGED << fail_fast, fallback_mode, clients, required_fields, status,
                    response, doneQ, nproc, idx, results, collected, calls, error >>
    /\ OrchFrame

\* the loop body for a future whose result() returns
CollectResult ==
    /\ pc = "collecting"
    /\ nproc < Len(yieldQ)
    /\ LET db_name == yieldQ[nproc + 1]
           r == Extend([results EXCEPT !.databases_queried = Append(@, db_name)],
                       response[db_name])
       IN  /\ status[db_name] = "ok"
           /\ nproc' = nproc + 1
           /\ IF nproc + 1 = Len(clients)
              THEN Return(r)
              ELSE /\ results' = r
                   /\ UNCHANGED << pc, collected >>
    /\ UNCHANGED << fail_fast, fallback_mode, clients, required_fields, status,
                    response, doneQ, yieldQ, idx, calls, error >>
    /\ OrchFrame

\* a loop body that has listed the backend before its result() raised
CollectFailureListed ==
    /\ pc = "collecting"
    /\ nproc < Len(yieldQ)
    /\ status[yieldQ[nproc + 1]] = "failed"
    /\ ~fail_fast
    /\ nproc' = nproc + 1
    /\ LET r == [results EXCEPT !.databases_queried = Append(@, yieldQ[nproc + 1])]
       IN  IF nproc + 1 = Len(clients)
           THEN Return(r)
           ELSE /\ results' = r
                /\ UNCHANGED << pc, collected >>
    /\ UNCHANGED << fail_fast, fallback_mode, clients, required_fields, status,
                    response, doneQ, yieldQ, idx, calls, error >>
    /\ OrchFrame

\* the loop body for a future whose result() raises, fail_fast off: logged
CollectFailure ==
    /\ pc = "collecting"
    /\ nproc < Len(yieldQ)
    /\ status[yieldQ[nproc + 1]] = "failed"
    /\ ~fail_fast
    /\ nproc' = nproc + 1
    /\ IF nproc + 1 = Len(clients)
       THEN Return(results)
       ELSE UNCHANGED << pc, results, collected >>
    /\ UNCHANGED << fail_fast, fallback_mode, clients, required_fields, status,
                    response, doneQ, yieldQ, idx, calls, error >>
    /\ OrchFrame

\* a loop body that logs the failure and goes on although fail_fast is on
CollectFailFastIgnored ==
    /\ pc = "collecting"
    /\ nproc < Len(yieldQ)
    /\ status[yieldQ[nproc + 1]] = "failed"
    /\ fail_fast
    /\ nproc' = nproc + 1
    /\ IF nproc + 1 = Len(clients)
       THEN Return(results)
       ELSE UNCHANGED << pc, results, collected >>
    /\ UNCHANGED << fail_fast, fallback_mode, clients, required_fields, status,
                    response, doneQ, yieldQ, idx, calls, error >>
    /\ OrchFrame

\* the loop body for a future whose result() raises, fail_fast on: SearchError
\* leaves the loop and the with block starts its exit
CollectFailFast ==
    /\ pc = "collecting"
    /\ nproc < Len(yieldQ)
    /\ status[yieldQ[nproc + 1]] = "failed"
    /\ fail_fast
    /\ nproc' = nproc + 1
    /\ pc' = "aborting"
    /\ error' = "SearchError"
    /\ UNCHANGED << fail_fast, fallback_mode, clients, required_fields, status,
                    response, doneQ, yieldQ, idx, results, collected, calls >>
    /\ OrchFrame

\* the exit of the with block is executor.shutdown(wait=True): the error
\* reaches the caller when no submitted call is running any more
ExecutorExit ==
    /\ pc = "aborting"
    /\ \A b \in Backends : status[b] # "running"
    /\ pc' = "raised"
    /\ UNCHANGED << fail_fast, fallback_mode, clients, required_fields, status,
                    response, doneQ, yieldQ, nproc, idx, results, collected, calls,
                    error >>
    /\ OrchFrame

(***************************************************************************)
(* _search_sequential: one loop iteration per step; client.search is a     *)
(* blocking call on the calling thread.                                    *)
(***************************************************************************)
SequentialBegin ==
    /\ pc = "idle"
    /\ fallback_mode = "sequential"
    /\ \E rf \in RequiredChoices : required_fields' = rf
    /\ results' = EmptyResult
    /\ idx' = 1
    /\ pc' = "sequential"
    /\ UNCHANGED << fail_fast, fallback_mode, clients, status, response, doneQ,
                    yieldQ, nproc, collected, calls, error >>
    /\ OrchFrame

\* an iteration that never leaves the loop early
SequentialResultNoBreak ==
    /\ pc = "sequential"
    /\ idx <= Len(clients)
    /\ LET db_name == clients[idx]
       IN  \E papers \in Responses(db_name) :
              LET r == Extend([results EXCEPT !.databases_queried = Append(@, db_name)],
                              papers)
              IN  /\ calls' = Append(calls, db_name)
                  /\ status' = [status EXCEPT ![db_name] = "ok"]
                  /\ response' = [response EXCEPT ![db_name] = papers]
                  /\ idx' = idx + 1
                  /\ IF idx = Len(clients)
                     THEN Return(r)
                     ELSE /\ results' = r
                          /\ UNCHANGED << pc, collected >>
    /\ UNCHANGED << fail_fast, fallback_mode, clients, required_fields, doneQ,
                    yieldQ, nproc, error >>
    /\ OrchFrame

\* the iteration whose client.search returns: the loop ends at once when it
\* returned papers and fail_fast is off
SequentialResult ==
    /\ pc = "sequential"
    /\ idx <= Len(clients)
    /\ LET db_name == clients[idx]
       IN  \E papers \in Responses(db_name) :
              LET r == Extend([results EXCEPT !.databases_queried = Append(@, db_name)],
                              papers)
              IN  /\ calls' = Append(calls, db_name)
                  /\ status' = [status EXCEPT ![db_name] = "ok"]
                  /\ response' = [response EXCEPT ![db_name] = papers]
                  /\ idx' = idx + 1
                  /\ IF (papers # <<>> /\ ~fail_fast) \/ idx = Len(clients)
                     THEN Return(r)
                     ELSE /\ results' = r
                          /\ UNCHANGED << pc, collected >>
    /\ UNCHANGED << fail_fast, fallback_mode, clients, required_fields, doneQ,
                    yieldQ, nproc, error >>
    /\ OrchFrame

\* an iteration that invokes the failed backend again
SequentialFailureRetries ==
    /\ pc = "sequential"
    /\ idx <= Len(clients)
    /\ ~fail_fast
    /\ calls' = Append(calls, clients[idx])
    /\ status' = [status EXCEPT ![clients[idx]] = "failed"]
    /\ UNCHANGED << fail_fast, fallback_mode, clients, required_fields, response,
                    doneQ, yieldQ, nproc, idx, pc, results, collected, error >>
    /\ OrchFrame

\* the iteration whose client.search raises, fail_fast off: on to the next
SequentialFailure ==
    /\ pc = "sequential"
    /\ idx <= Len(clients)
    /\ ~fail_fast
    /\ calls' = Append(calls, clients[idx])
    /\ status' = [status EXCEPT ![clients[idx]] = "failed"]
    /\ idx' = idx + 1
    /\ IF idx = Len(clients)
       THEN Return(results)
       ELSE UNCHANGED << pc, results, collected >>
    /\ UNCHANGED << fail_fast, fallback_mode, clients, required_fields, response,
                    doneQ, yieldQ, nproc, error >>
    /\ OrchFrame

\* an iteration that goes on to the next backend although fail_fast is on
SequentialFailFastContinues ==
    /\ pc = "sequential"
    /\ idx <= Len(clients)
    /\ fail_fast
    /\ calls' = Append(calls, clients[idx])
    /\ status' = [status EXCEPT ![clients[idx]] = "failed"]
    /\ idx' = idx + 1
    /\ IF idx = Len(clients)
       THEN /\ pc' = "raised"
            /\ error' = "SearchError"
            /\ UNCHANGED << results, collected >>
       ELSE UNCHANGED << pc, results, collected, error >>
    /\ UNCHANGED << fail_fast, fallback_mode, clients, required_fields, response,
                    doneQ, yieldQ, nproc >>
    /\ OrchFrame

\* the iteration whose client.search raises, fail_fast on: SearchError
SequentialFailFast ==
    /\ pc = "sequential"
    /\ idx <= Len(clients)
    /\ fail_fast
    /\ calls' = Append(calls, clients[idx])
    /\ status' = [status EXCEPT ![clients[idx]] = "failed"]
    /\ pc' = "raised"
    /\ error' = "SearchError"
    /\ UNCHANGED << fail_fast, fallback_mode, clients, required_fields, response,
                    doneQ, yieldQ, nproc, idx, results, collected >>
    /\ OrchFrame

(***************************************************************************)
(* _search_first: the first client only; its SearchResult is returned,     *)
(* filtered when the query lists required fields.                          *)
(***************************************************************************)
FirstResult ==
    /\ pc = "idle"
    /\ fallback_mode = "first"
    /\ \E rf \in RequiredChoices : required_fields' = rf
    /\ LET db_name == clients[1]
       IN  \E papers \in Responses(db_name) :
              LET r == [Extend(EmptyResult, papers) EXCEPT
                            !.databases_queried = <<db_name>>]
              IN  /\ calls' = <<db_name>>
                  /\ status' = [status EXCEPT ![db_name] = "ok"]
                  /\ response' = [response EXCEPT ![db_name] = papers]
                  /\ collected' = papers
                  /\ results' = IF required_fields' # {}
                                THEN FilterByRequiredFields(r, required_fields')
                                ELSE r
    /\ pc' = "returned"
    /\ UNCHANGED << fail_fast, fallback_mode, clients, doneQ, yieldQ, nproc, idx,
                    error >>
    /\ OrchFrame

\* a first-only search that swallows the failure when fail_fast is off
FirstFailureSwallowed ==
    /\ pc = "idle"
    /\ fallback_mode = "first"
    /\ \E rf \in RequiredChoices : required_fields' = rf
    /\ calls' = <<clients[1]>>
    /\ status' = [status EXCEPT ![clients[1]] = "failed"]
    /\ IF fail_fast
       THEN pc' = "raised" /\ error' = "SearchError"
       ELSE pc' = "returned" /\ error' = error
    /\ UNCHANGED << fail_fast, fallback_mode, clients, response, doneQ, yieldQ,
                    nproc, idx, results, collected >>
    /\ OrchFrame

\* the first client's search raises: SearchError, whatever fail_fast is
FirstFailure ==
    /\ pc = "idle"
    /\ fallback_mode = "first"
    /\ \E rf \in RequiredChoices : required_fields' = rf
    /\ calls' = <<clients[1]>>
    /\ status' = [status EXCEPT ![clients[1]] = "failed"]
    /\ pc' = "raised"
    /\ error' = "SearchError"
    /\ UNCHANGED << fail_fast, fallback_mode, clients, response, doneQ, yieldQ,
                    nproc, idx, results, collected >>
    /\ OrchFrame

(***************************************************************************)
(* batch_lookup: every client of db_list in turn (all registered clients   *)
(* when no list is passed), failures logged, then deduplication.           *)
(***************************************************************************)
\* the end of batch_lookup: deduplicate and return, without any filter
BatchReturn(r) ==
    /\ collected' = r.papers
    /\ results' = DeduplicateResults(r)
    /\ pc' = "returned"

BatchBegin ==
    /\ pc = "idle"
    /\ results' = EmptyResult
    /\ idx' = 1
    /\ pc' = "batch"
    /\ UNCHANGED << fail_fast, fallback_mode, clients, required_fields, status,
                    response, doneQ, yieldQ, nproc, collected, calls, error >>
    /\ OrchFrame

\* the iteration whose client.batch_lookup returns
BatchResult ==
    /\ pc = "batch"
    /\ idx <= Len(clients)
    /\ LET db_name == clients[idx]
       IN  \E papers \in Responses(db_name) :
              LET r == Extend([results EXCEPT !.databases_queried = Append(@, db_name)],
                              papers)
              IN  /\ calls' = Append(calls, db_name)
                  /\ status' = [status EXCEPT ![db_name] = "ok"]
                  /\ response' = [response EXCEPT ![db_name] = papers]
                  /\ idx' = idx + 1
                  /\ IF idx = Len(clients)
                     THEN BatchReturn(r)
                     ELSE /\ results' = r
                          /\ UNCHANGED << pc, collected >>
    /\ UNCHANGED << fail_fast, fallback_mode, clients, required_fields, doneQ,
                    yieldQ, nproc, error >>
    /\ OrchFrame

\* the iteration whose client.batch_lookup raises: logged, whatever
\* fail_fast is
BatchFailure ==
    /\ pc = "batch"
    /\ idx <= Len(clients)
    /\ calls' = Append(calls, clients[idx])
    /\ status' = [status EXCEPT ![clients[idx]] = "failed"]
    /\ idx' = idx + 1
    /\ IF idx = Len(clients)
       THEN BatchReturn(results)
       ELSE UNCHANGED << pc, results, collected >>
    /\ UNCHANGED << fail_fast, fallback_mode, clients, required_fields, response,
                    doneQ, yieldQ, nproc, error >>
    /\ OrchFrame

BatchNext == BatchBegin \/ BatchResult \/ BatchFailure

\* a client for batch_lookup: fallback_mode is not read by it
BatchInit ==
    /\ fail_fast \in BOOLEAN
    /\ fallback_mode = "sequential"
    /\ \E n \in 1..MaxBackends : clients = SubSeq(AvailableClients, 1, n)
    /\ required_fields = {}
    /\ pc = "idle"
    /\ status = [b \in Range(clients) |-> "idle"]
    /\ response = [b \in Range(clients) |-> <<>>]
    /\ doneQ = <<>>
    /\ yieldQ = <<>>
    /\ nproc = 0
    /\ idx = 1
    /\ results = EmptyResult
    /\ collected = <<>>
    /\ calls = <<>>
    /\ error = "none"

(***************************************************************************)
(* A SearchResult under the operations that change its paper list.         *)
(***************************************************************************)
\* the papers the operations are applied to: with and without a DOI under
\* every title, and with an arXiv id instead
PaperDomain ==
    { MkPaper(d, None, <<>>, t, None, "crossref") :
        d \in {None, <<"x">>},
        t \in {<<>>, <<"a">>, <<"A">>, <<" ", "a">>} }
    \cup
    { MkPaper(None, None, <<"1">>, t, None, "crossref") : t \in {<<>>, <<"a">>} }

\* the required_fields lists the filter is applied with
SrRequiredChoices == {{"doi"}, {"doi", "title"}, {"abstract"}}

SrInit ==
    /\ sr = EmptyResult
    /\ sr_op = "new"
    /\ sr_prev = <<>>
    /\ sr_prev_op = "new"
    /\ stats = <<>>

\* result.add_paper(paper)
SrAddPaper ==
    /\ Len(sr.papers) < MaxLen
    /\ \E p \in PaperDomain : sr' = AddPaper(sr, p)
    /\ sr_op' = "add_paper"
    /\ sr_prev_op' = sr_op
    /\ sr_prev' = <<>>
    /\ SrFrame

\* the papers of the lists handed to extend
ExtendDomain ==
    { MkPaper(<<"x">>, None, <<>>, t, None, "crossref") : t \in {<<"a">>, <<"A">>} }

\* result.extend(papers), the list possibly empty
SrExtend ==
    /\ \E papers \in SeqsUpTo(ExtendDomain, 2) :
          /\ Len(sr.papers) + Len(papers) <= MaxLen
          /\ sr' = Extend(sr, papers)
    /\ sr_op' = "extend"
    /\ sr_prev_op' = sr_op
    /\ sr_prev' = <<>>
    /\ SrFrame

\* client._deduplicate_results(result)
SrDeduplicate ==
    /\ sr' = DeduplicateResults(sr)
    /\ sr_op' = "deduplicate"
    /\ sr_prev_op' = sr_op
    /\ sr_prev' = sr.papers
    /\ SrFrame

\* result = result.filter_by_required_fields(required)
SrFilter ==
    /\ \E rf \in SrRequiredChoices : sr' = FilterByRequiredFields(sr, rf)
    /\ sr_op' = "filter"
    /\ sr_prev_op' = sr_op
    /\ sr_prev' = sr.papers
    /\ SrFrame

SrNext == SrAddPaper \/ SrExtend \/ SrDeduplicate \/ SrFilter

(***************************************************************************)
(* SearchResult.field_statistics.  A dictionary is a function from its     *)
(* keys, the empty one <<>>; the float count / total * 100 is kept as the  *)
(* fraction << count * 100, total >>.                                      *)
(***************************************************************************)
\* field_statistics with len(all_fields) as the total
field_statisticsTotalOfFields(r) ==
    IF r.papers = <<>>
    THEN <<>>
    ELSE LET n == Len(r.papers)
             all_fields == UNION {get_available_fields(r.papers[i]) : i \in 1..n}
             field_counts ==
                 [f \in all_fields |->
                     Cardinality({i \in 1..n : f \in get_available_fields(r.papers[i])})]
             total == Cardinality(all_fields)
         IN  [f \in all_fields |->
                 [field_name |-> f,
                  available_count |-> field_counts[f],
                  total_count |-> total,
                  percentage |-> IF total > 0
                                 THEN << field_counts[f] * 100, total >>
                                 ELSE << 0, 1 >>]]

\* result.field_statistics()
field_statistics(r) ==
    IF r.papers = <<>>
    THEN <<>>
    ELSE LET n == Len(r.papers)
             all_fields == UNION {get_available_fields(r.papers[i]) : i \in 1..n}
             field_counts ==
                 [f \in all_fields |->
                     Cardinality({i \in 1..n : f \in get_available_fields(r.papers[i])})]
             total == Len(r.papers)
         IN  [f \in all_fields |->
                 [field_name |-> f,
                  available_count |-> field_counts[f],
                  total_count |-> total,
                  percentage |-> IF total > 0
                                 THEN << field_counts[f] * 100, total >>
                                 ELSE << 0, 1 >>]]

\* the papers statistics are computed over: each of DOI, abstract and
\* keywords present or not
StatsDomain ==
    { [MkPaper(d, None, None, <<"a">>, a, "crossref") EXCEPT !.keywords = k] :
        d \in {None, <<"x">>},
        a \in {None, <<"s">>},
        k \in {<<>>, <<"k">>} }

\* result.add_paper(paper) on the way to a field_statistics call
StatAddPaper ==
    /\ Len(sr.papers) < MaxLen
    /\ \E p \in StatsDomain : sr' = AddPaper(sr, p)
    /\ sr_op' = "add_paper"
    /\ sr_prev_op' = sr_op
    /\ sr_prev' = <<>>
    /\ stats' = <<>>
    /\ StatFrame

\* stats = result.field_statistics()
StatFieldStatistics ==
    /\ stats' = field_statistics(sr)
    /\ sr_op' = "field_statistics"
    /\ sr_prev_op' = sr_op
    /\ UNCHANGED << sr, sr_prev >>
    /\ StatFrame

StatNext == StatAddPaper \/ StatFieldStatistics

(***************************************************************************)
(* The retry executor: exponential_backoff_retry's wrapper and             *)
(* RetryHandler.execute run the same loop.                                 *)
(***************************************************************************)
\* how large a max_retries the model configures
MaxRetriesBound == 3

\* the defaults of the executor, delays in milliseconds
InitialDelay == 1000
MaxDelay == 60000
ExponentialBase == 2

\* the exception classes of core/exceptions.py, and a builtin one
Parent(c) ==
    CASE c = "RateLimitError"      -> "DatabaseError"
      [] c = "APIError"            -> "DatabaseError"
      [] c = "AuthenticationError" -> "DatabaseError"
      [] c = "TimeoutError"        -> "DatabaseError"
      [] c = "DatabaseError"       -> "AcademicSearchError"
      [] c = "ValidationError"     -> "AcademicSearchError"
      [] c = "AcademicSearchError" -> "Exception"
      [] c = "ValueError"          -> "Exception"
      [] OTHER                     -> "Exception"

RECURSIVE Ancestors(_)
Ancestors(c) == IF c = "Exception" THEN {c} ELSE {c} \cup Ancestors(Parent(c))

\* isinstance(e, classes)
IsInstance(e, classes) == Ancestors(e.kind) \cap classes # {}

\* the default retry_on
DefaultRetryOn == {"APIError", "RateLimitError", "TimeoutError"}

NoError == [kind |-> "none", retry_after |-> 0, attempt |-> 0]

\* what func can raise at its k-th invocation; retry_after in seconds, 0 for
\* None
Raisable(k) ==
    {[kind |-> c, retry_after |-> 0, attempt |-> k] :
        c \in {"APIError", "TimeoutError", "AuthenticationError",
               "ValidationError", "ValueError"}}
    \cup {[kind |-> "RateLimitError", retry_after |-> ra, attempt |-> k] :
            ra \in {0, 5}}

\* 0.5 + random.random(), in thousandths: a value of [0.5, 1.5)
JitterFactors == {500, 1000, 1499}

RECURSIVE Pow(_, _)
Pow(b, n) == IF n = 0 THEN 1 ELSE b * Pow(b, n - 1)

Min(a, b) == IF a < b THEN a ELSE b
Max(a, b) == IF a > b THEN a ELSE b

\* a delay whose retry-after floor is applied before the max_delay cap
BackoffDelayCapped(n, e, f) ==
    LET base == InitialDelay * Pow(ExponentialBase, n - 1)
        floored == IF IsInstance(e, {"RateLimitError"}) /\ e.retry_after # 0
                   THEN Max(base, e.retry_after * 1000)
                   ELSE base
        capped == Min(floored, max_delay)
    IN  IF jitter THEN (capped * f) \div 1000 ELSE capped

\* RetryHandler.calculate_delay(attempt, retry_after) under jitter factor f,
\* retry_after in seconds, 0 for None
calculate_delay(attempt, retry_after, f) ==
    LET delay == Min(InitialDelay * Pow(ExponentialBase, attempt - 1), max_delay)
        jittered == IF jitter THEN (delay * f) \div 1000 ELSE delay
    IN  IF retry_after # 0
        THEN Max(jittered, retry_after * 1000)
        ELSE jittered

\* an exception that leaves wrapped in the base class of the package
ReraiseWrapped(e) ==
    [kind |-> "AcademicSearchError", retry_after |-> 0, attempt |-> e.attempt]

\* a bare raise in the handler: the exception being handled leaves as it is
Reraise(e) == e

\* the delay before retry number n for exception e under jitter factor f
BackoffDelay(n, e, f) ==
    LET base == Min(InitialDelay * Pow(ExponentialBase, n - 1), max_delay)
        jittered == IF jitter THEN (base * f) \div 1000 ELSE base
    IN  IF IsInstance(e, {"RateLimitError"}) /\ e.retry_after # 0
        THEN Max(jittered, e.retry_after * 1000)
        ELSE jittered

\* a retry test that is off by one: it gives up when retries reaches
\* max_retries
GiveUpEarly(n) == n >= max_retries

\* retries > max_retries
GiveUp(n) == n > max_retries

\* a handler that retries whatever the exception is
CaughtAlways(e) == TRUE

\* except retry_on as e
Caught(e) == IsInstance(e, retry_on)

RetryInit ==
    /\ max_retries \in 0..MaxRetriesBound
    /\ max_delay \in {MaxDelay, 3000}
    /\ jitter \in BOOLEAN
    /\ retry_on \in {DefaultRetryOn, {"APIError"}}
    /\ rt_pc = "idle"
    /\ retries = 0
    /\ current_delay = 0
    /\ attempts = 0
    /\ nfail = 0
    /\ nsleeps = 0
    /\ rt_last = NoError
    /\ rt_raised = NoError

RetryIdle ==
    /\ max_retries = 3
    /\ max_delay = MaxDelay
    /\ jitter = TRUE
    /\ retry_on = DefaultRetryOn
    /\ rt_pc = "idle"
    /\ retries = 0
    /\ current_delay = 0
    /\ attempts = 0
    /\ nfail = 0
    /\ nsleeps = 0
    /\ rt_last = NoError
    /\ rt_raised = NoError

\* the wrapper is called: retries = 0, and the loop starts
RetryEnter ==
    /\ rt_pc = "idle"
    /\ retries' = 0
    /\ rt_pc' = "calling"
    /\ UNCHANGED << max_retries, max_delay, jitter, retry_on, current_delay,
                    attempts, nfail, nsleeps, rt_last, rt_raised >>
    /\ RetryFrame

\* func returns: the wrapper returns its result
RetryCallReturns ==
    /\ rt_pc = "calling"
    /\ attempts' = attempts + 1
    /\ rt_last' = NoError
    /\ rt_pc' = "returned"
    /\ UNCHANGED << max_retries, max_delay, jitter, retry_on, retries,
                    current_delay, nfail, nsleeps, rt_raised >>
    /\ RetryFrame

\* func raises an exception of retry_on and retries are left: the delay is
\* computed and the sleep starts
RetryCallRetryable ==
    /\ rt_pc = "calling"
    /\ \E e \in Raisable(attempts + 1), f \in JitterFactors :
          /\ Caught(e)
          /\ ~GiveUp(retries + 1)
          /\ rt_last' = e
          /\ current_delay' = BackoffDelay(retries + 1, e, f)
    /\ attempts' = attempts + 1
    /\ nfail' = nfail + 1
    /\ retries' = retries + 1
    /\ rt_pc' = "sleeping"
    /\ UNCHANGED << max_retries, max_delay, jitter, retry_on, nsleeps, rt_raised >>
    /\ RetryFrame

\* func raises an exception of retry_on and the retries are used up: raise
RetryCallExhausted ==
    /\ rt_pc = "calling"
    /\ \E e \in Raisable(attempts + 1) :
          /\ Caught(e)
          /\ GiveUp(retries + 1)
          /\ rt_last' = e
          /\ rt_raised' = Reraise(e)
    /\ attempts' = attempts + 1
    /\ nfail' = nfail + 1
    /\ retries' = retries + 1
    /\ rt_pc' = "raised"
    /\ UNCHANGED << max_retries, max_delay, jitter, retry_on, current_delay, nsleeps >>
    /\ RetryFrame

\* func raises any other exception: raise
RetryCallOther ==
    /\ rt_pc = "calling"
    /\ \E e \in Raisable(attempts + 1) :
          /\ ~Caught(e)
          /\ rt_last' = e
          /\ rt_raised' = Reraise(e)
    /\ attempts' = attempts + 1
    /\ nfail' = nfail + 1
    /\ rt_pc' = "raised"
    /\ UNCHANGED << max_retries, max_delay, jitter, retry_on, retries,
                    current_delay, nsleeps >>
    /\ RetryFrame

\* time.sleep(current_delay) returns: the loop calls func again
RetrySleepDone ==
    /\ rt_pc = "sleeping"
    /\ nsleeps' = nsleeps + 1
    /\ rt_pc' = "calling"
    /\ UNCHANGED << max_retries, max_delay, jitter, retry_on, retries,
                    current_delay, attempts, nfail, rt_last, rt_raised >>
    /\ RetryFrame

RetryNext ==
    \/ RetryEnter
    \/ RetryCallReturns
    \/ RetryCallRetryable
    \/ RetryCallExhausted
    \/ RetryCallOther
    \/ RetrySleepDone

(***************************************************************************)
(* SimpleRateLimiter.wait_if_needed.  The whole body runs under            *)
(* self._lock, the sleep included.  time.time() is read once after the     *)
(* lock is taken and once after the sleep; a reading is never below the    *)
(* one before it and may equal it.                                         *)
(***************************************************************************)
\* how many wait_if_needed calls the threads make in total
MaxCalls == 5

\* the window sizes 1.0 and 60.0 seconds, in half-seconds
SecondWindow == 2
MinuteWindow == 120

Threads == {"t1", "t2"}

\* by how much time.time() can have advanced between two readings
Advances == {0, 1, 2, 119, 120}

\* by how much time.sleep can overshoot
Overshoots == {0, 1}

\* _clean_window: entries older than window_size leave from the left
RECURSIVE clean_window(_, _, _)
clean_window(window, now, window_size) ==
    IF window # <<>> /\ (now - Head(window)) > window_size
    THEN clean_window(Tail(window), now, window_size)
    ELSE window

\* the wait one window asks for: 0 when the cap is not reached
WindowWait(cap, window, now, window_size) ==
    IF cap # 0 /\ Len(window) >= cap
    THEN Max(0, window_size - (now - window[1]))
    ELSE 0

\* a request recorded whether or not the window has a cap
RecordAlways(cap, window, now) == Append(window, now)

\* "Record this request"
Record(cap, window, now) == IF cap # 0 THEN Append(window, now) ELSE window

LimInit ==
    /\ requests_per_second \in {0, 1, 2}
    /\ requests_per_minute \in {0, 2, 3}
    /\ second_window = <<>>
    /\ minute_window = <<>>
    /\ lock = "free"
    /\ clock = 0
    /\ lt_pc = [t \in Threads |-> "idle"]
    /\ wake = 0
    /\ ncalls = 0
    /\ admitted = <<>>

LimIdle ==
    /\ requests_per_second = 1
    /\ requests_per_minute = 0
    /\ second_window = <<>>
    /\ minute_window = <<>>
    /\ lock = "free"
    /\ clock = 0
    /\ lt_pc = [t \in Threads |-> "idle"]
    /\ wake = 0
    /\ ncalls = 0
    /\ admitted = <<>>

\* limiters with a per-second cap, a per-minute cap, or both
CappedLimiters == { <<1, 0>>, <<0, 2>>, <<1, 2>> }

\* a thread calls wait_if_needed and reaches "with self._lock"
LimCall(t) ==
    /\ lt_pc[t] = "idle"
    /\ ncalls < MaxCalls
    /\ ncalls' = ncalls + 1
    /\ lt_pc' = [lt_pc EXCEPT ![t] = "blocked"]
    /\ UNCHANGED << requests_per_second, requests_per_minute, second_window,
                    minute_window, lock, clock, wake, admitted >>
    /\ LimFrame

\* the thread takes the lock, cleans the windows and finds no wait: it
\* records the request and releases the lock
LimAdmit(t) ==
    /\ lt_pc[t] = "blocked"
    /\ lock = "free"
    /\ \E d \in Advances :
          LET now == clock + d
              sw == IF requests_per_second # 0
                    THEN clean_window(second_window, now, SecondWindow)
                    ELSE second_window
              mw == IF requests_per_minute # 0
                    THEN clean_window(minute_window, now, MinuteWindow)
                    ELSE minute_window
              wait_time == Max(WindowWait(requests_per_second, sw, now, SecondWindow),
                               WindowWait(requests_per_minute, mw, now, MinuteWindow))
          IN  /\ ~(wait_time > 0)
              /\ clock' = now
              /\ second_window' = Record(requests_per_second, sw, now)
              /\ minute_window' = Record(requests_per_minute, mw, now)
              /\ admitted' = Append(admitted, now)
    /\ lt_pc' = [lt_pc EXCEPT ![t] = "idle"]
    /\ UNCHANGED << requests_per_second, requests_per_minute, lock, wake, ncalls >>
    /\ LimFrame

\* the thread takes the lock, cleans the windows and finds a wait: it sleeps
\* with the lock held
LimSleep(t) ==
    /\ lt_pc[t] = "blocked"
    /\ lock = "free"
    /\ \E d \in Advances :
          LET now == clock + d
              sw == IF requests_per_second # 0
                    THEN clean_window(second_window, now, SecondWindow)
                    ELSE second_window
              mw == IF requests_per_minute # 0
                    THEN clean_window(minute_window, now, MinuteWindow)
                    ELSE minute_window
              wait_time == Max(WindowWait(requests_per_second, sw, now, SecondWindow),
                               WindowWait(requests_per_minute, mw, now, MinuteWindow))
          IN  /\ wait_time > 0
              /\ clock' = now
              /\ second_window' = sw
              /\ minute_window' = mw
              /\ wake' = now + wait_time
    /\ lock' = t
    /\ lt_pc' = [lt_pc EXCEPT ![t] = "sleeping"]
    /\ UNCHANGED << requests_per_second, requests_per_minute, ncalls, admitted >>
    /\ LimFrame

\* time.sleep returns and the request is recorded, but the lock stays held
LimWakeKeepsLock(t) ==
    /\ lt_pc[t] = "sleeping"
    /\ lock = t
    /\ \E o \in Overshoots :
          LET now == wake + o
          IN  /\ clock' = now
              /\ second_window' = Record(requests_per_second, second_window, now)
              /\ minute_window' = Record(requests_per_minute, minute_window, now)
              /\ admitted' = Append(admitted, now)
    /\ lt_pc' = [lt_pc EXCEPT ![t] = "idle"]
    /\ UNCHANGED << requests_per_second, requests_per_minute, lock, wake, ncalls >>
    /\ LimFrame

\* time.sleep returns: the thread reads the time again, records the request
\* and releases the lock
LimWake(t) ==
    /\ lt_pc[t] = "sleeping"
    /\ lock = t
    /\ \E o \in Overshoots :
          LET now == wake + o
          IN  /\ clock' = now
              /\ second_window' = Record(requests_per_second, second_window, now)
              /\ minute_window' = Record(requests_per_minute, minute_window, now)
              /\ admitted' = Append(admitted, now)
    /\ lock' = "free"
    /\ lt_pc' = [lt_pc EXCEPT ![t] = "idle"]
    /\ UNCHANGED << requests_per_second, requests_per_minute, wake, ncalls >>
    /\ LimFrame

LimNext ==
    \/ \E t \in Threads : LimCall(t)
    \/ \E t \in Threads : LimAdmit(t)
    \/ \E t \in Threads : LimSleep(t)
    \/ \E t \in Threads : LimWake(t)

(***************************************************************************)
(* SessionPool: the class-level dictionary of sessions and the class-level *)
(* Lock every class method holds for its whole body.  A session object is  *)
(* its identity, a number.                                                 *)
(***************************************************************************)
\* how many get_session and close_session calls the threads make
MaxPoolCalls == 4

\* the database names sessions are asked for
PoolNames == {"crossref", "openalex"}

\* a lock that lets every caller in
AcquirableAlways(l) == TRUE

\* `with cls._lock` can be entered: no thread holds the lock
Acquirable(l) == l = "free"

PoolInit ==
    /\ sessions = <<>>
    /\ pool_lock = "free"
    /\ sp_pc = [t \in Threads |-> "idle"]
    /\ sp_op = [t \in Threads |-> "get"]
    /\ sp_db = [t \in Threads |-> "crossref"]
    /\ sp_new = [t \in Threads |-> 0]
    /\ next_id = 1
    /\ sp_ncalls = 0
    /\ sp_log = <<>>

PoolIdle == PoolInit

\* a thread calls get_session(database), close_session(database),
\* close_all_sessions(), reset() or get_pool_size() and reaches
\* `with cls._lock`
PoolCall(t) ==
    /\ sp_pc[t] = "idle"
    /\ sp_ncalls < MaxPoolCalls
    /\ \/ \E op \in {"get", "close"}, db \in PoolNames :
             /\ sp_op' = [sp_op EXCEPT ![t] = op]
             /\ sp_db' = [sp_db EXCEPT ![t] = db]
       \/ \E op \in {"close_all", "reset", "size"} :
             /\ sp_op' = [sp_op EXCEPT ![t] = op]
             /\ UNCHANGED sp_db
    /\ sp_ncalls' = sp_ncalls + 1
    /\ sp_pc' = [sp_pc EXCEPT ![t] = "waiting"]
    /\ UNCHANGED << sessions, pool_lock, sp_new, next_id, sp_log >>
    /\ PoolFrame

\* the thread enters the with block
PoolAcquire(t) ==
    /\ sp_pc[t] = "waiting"
    /\ Acquirable(pool_lock)
    /\ pool_lock' = t
    /\ sp_pc' = [sp_pc EXCEPT ![t] = "locked"]
    /\ UNCHANGED << sessions, sp_op, sp_db, sp_new, next_id, sp_ncalls, sp_log >>
    /\ PoolFrame

\* get_session: database not in cls._sessions, session = requests.Session()
\* and its adapters
PoolCreate(t) ==
    /\ sp_pc[t] = "locked"
    /\ sp_op[t] = "get"
    /\ sp_db[t] \notin DOMAIN sessions
    /\ sp_new' = [sp_new EXCEPT ![t] = next_id]
    /\ next_id' = next_id + 1
    /\ sp_pc' = [sp_pc EXCEPT ![t] = "created"]
    /\ UNCHANGED << sessions, pool_lock, sp_op, sp_db, sp_ncalls, sp_log >>
    /\ PoolFrame

\* get_session: cls._sessions[database] = session
PoolStore(t) ==
    /\ sp_pc[t] = "created"
    /\ sessions' = [db \in DOMAIN sessions \cup {sp_db[t]} |->
                       IF db = sp_db[t] THEN sp_new[t] ELSE sessions[db]]
    /\ sp_log' = Append(sp_log, [op |-> "create", db |-> sp_db[t], session |-> sp_new[t]])
    /\ sp_pc' = [sp_pc EXCEPT ![t] = "stored"]
    /\ UNCHANGED << pool_lock, sp_op, sp_db, sp_new, next_id, sp_ncalls >>
    /\ PoolFrame

\* get_session: return cls._sessions[database], leaving the with block; the
\* test on the dictionary found the name, or the session was just stored.  A
\* name the dictionary has lost since is a KeyError
PoolReturn(t) ==
    /\ sp_op[t] = "get"
    /\ \/ sp_pc[t] = "stored"
       \/ sp_pc[t] = "locked" /\ sp_db[t] \in DOMAIN sessions
    /\ sp_log' = Append(sp_log,
                        [op |-> "get", db |-> sp_db[t],
                         session |-> IF sp_db[t] \in DOMAIN sessions
                                     THEN sessions[sp_db[t]] ELSE 0])
    /\ pool_lock' = "free"
    /\ sp_pc' = [sp_pc EXCEPT ![t] = "idle"]
    /\ UNCHANGED << sessions, sp_op, sp_db, sp_new, next_id, sp_ncalls >>
    /\ PoolFrame

\* close_session: pop and close the session of the name if there is one,
\* leaving the with block
PoolClose(t) ==
    /\ sp_pc[t] = "locked"
    /\ sp_op[t] = "close"
    /\ IF sp_db[t] \in DOMAIN sessions
       THEN /\ sessions' = [db \in DOMAIN sessions \ {sp_db[t]} |-> sessions[db]]
            /\ sp_log' = Append(sp_log, [op |-> "close", db |-> sp_db[t],
                                         session |-> sessions[sp_db[t]]])
       ELSE /\ UNCHANGED sessions
            /\ sp_log' = Append(sp_log, [op |-> "close_miss", db |-> sp_db[t],
                                         session |-> 0])
    /\ pool_lock' = "free"
    /\ sp_pc' = [sp_pc EXCEPT ![t] = "idle"]
    /\ UNCHANGED << sp_op, sp_db, sp_new, next_id, sp_ncalls >>
    /\ PoolFrame

\* session.close() for every session of the pool, one "close" event each
RECURSIVE CloseEvents(_)
CloseEvents(S) ==
    IF S = {} THEN <<>>
    ELSE LET db == CHOOSE x \in S : TRUE
         IN  << [op |-> "close", db |-> db, session |-> sessions[db]] >>
                \o CloseEvents(S \ {db})

\* close_all_sessions that closes every session and keeps the dictionary
PoolCloseAllKeepsSessions(t) ==
    /\ sp_pc[t] = "locked"
    /\ sp_op[t] \in {"close_all", "reset"}
    /\ UNCHANGED sessions
    /\ sp_log' = sp_log \o CloseEvents(DOMAIN sessions)
                     \o << [op |-> sp_op[t], db |-> "", session |-> 0] >>
    /\ pool_lock' = "free"
    /\ sp_pc' = [sp_pc EXCEPT ![t] = "idle"]
    /\ UNCHANGED << sp_op, sp_db, sp_new, next_id, sp_ncalls >>
    /\ PoolFrame

\* close_all_sessions, also as called by reset: close every session, clear
\* the dictionary, leave the with block
PoolCloseAll(t) ==
    /\ sp_pc[t] = "locked"
    /\ sp_op[t] \in {"close_all", "reset"}
    /\ sessions' = <<>>
    /\ sp_log' = sp_log \o CloseEvents(DOMAIN sessions)
                     \o << [op |-> sp_op[t], db |-> "", session |-> 0] >>
    /\ pool_lock' = "free"
    /\ sp_pc' = [sp_pc EXCEPT ![t] = "idle"]
    /\ UNCHANGED << sp_op, sp_db, sp_new, next_id, sp_ncalls >>
    /\ PoolFrame

\* get_pool_size: return len(cls._sessions), leaving the with block
PoolSize(t) ==
    /\ sp_pc[t] = "locked"
    /\ sp_op[t] = "size"
    /\ sp_log' = Append(sp_log, [op |-> "size", db |-> "", session |-> 0,
                                 size |-> Cardinality(DOMAIN sessions)])
    /\ pool_lock' = "free"
    /\ sp_pc' = [sp_pc EXCEPT ![t] = "idle"]
    /\ UNCHANGED << sessions, sp_op, sp_db, sp_new, next_id, sp_ncalls >>
    /\ PoolFrame

PoolNext ==
    \/ \E t \in Threads : PoolCall(t)
    \/ \E t \in Threads : PoolAcquire(t)
    \/ \E t \in Threads : PoolCreate(t)
    \/ \E t \in Threads : PoolStore(t)
    \/ \E t \in Threads : PoolReturn(t)
    \/ \E t \in Threads : PoolClose(t)
    \/ \E t \in Threads : PoolCloseAll(t)
    \/ \E t \in Threads : PoolSize(t)

(***************************************************************************)
(* StreamingExporter: open, write_paper and close around the subclass      *)
(* hooks _do_open (which sets self._file_handle), _do_write_paper and      *)
(* _do_close.  Each action is one call, with the hook succeeding or        *)
(* raising.                                                                *)
(***************************************************************************)
\* how many calls are made on the exporter
MaxExportOps == 6

\* the record of a call: what it was, whether it raised ExportError, and
\* the handle and count it found
ExCall(op, raised) ==
    [op |-> op, raised |-> raised, handle |-> file_handle, count |-> ex_count]

\* StreamingExporter.__init__
ExInit ==
    /\ file_handle = "None"
    /\ ex_count = 0
    /\ ex_written = 0
    /\ ex_session = 0
    /\ ex_last = [op |-> "init", raised |-> FALSE, handle |-> "None", count |-> 0]
    /\ ex_nops = 0

\* open(filename), _do_open sets the handle
ExOpen ==
    /\ ex_nops < MaxExportOps
    /\ file_handle' = "file"
    /\ ex_written' = 0
    /\ ex_last' = ExCall("open", FALSE)
    /\ ex_nops' = ex_nops + 1
    /\ UNCHANGED << ex_count, ex_session >>
    /\ ExFrame

\* open(filename), mkdir or _do_open raises before the handle is set:
\* ExportError
ExOpenFails ==
    /\ ex_nops < MaxExportOps
    /\ ex_last' = ExCall("open", TRUE)
    /\ ex_nops' = ex_nops + 1
    /\ UNCHANGED << file_handle, ex_count, ex_written, ex_session >>
    /\ ExFrame

\* write_paper(paper) without a handle: ExportError
ExWriteClosed ==
    /\ ex_nops < MaxExportOps
    /\ file_handle = "None"
    /\ ex_last' = ExCall("write_paper", TRUE)
    /\ ex_nops' = ex_nops + 1
    /\ UNCHANGED << file_handle, ex_count, ex_written, ex_session >>
    /\ ExFrame

\* write_paper(paper) with a handle, _do_write_paper returns
ExWrite ==
    /\ ex_nops < MaxExportOps
    /\ file_handle # "None"
    /\ ex_count' = ex_count + 1
    /\ ex_written' = ex_written + 1
    /\ ex_session' = ex_session + 1
    /\ ex_last' = ExCall("write_paper", FALSE)
    /\ ex_nops' = ex_nops + 1
    /\ UNCHANGED file_handle
    /\ ExFrame

\* write_paper(paper) with a handle, _do_write_paper raises: ExportError
ExWriteFails ==
    /\ ex_nops < MaxExportOps
    /\ file_handle # "None"
    /\ ex_last' = ExCall("write_paper", TRUE)
    /\ ex_nops' = ex_nops + 1
    /\ UNCHANGED << file_handle, ex_count, ex_written, ex_session >>
    /\ ExFrame

\* close() with a handle: _do_close returns or raises (ExportError), and the
\* finally block resets handle and count
ExClose ==
    /\ ex_nops < MaxExportOps
    /\ file_handle # "None"
    /\ \E raised \in BOOLEAN : ex_last' = ExCall("close", raised)
    /\ file_handle' = "None"
    /\ ex_count' = 0
    /\ ex_written' = 0
    /\ ex_session' = 0
    /\ ex_nops' = ex_nops + 1
    /\ ExFrame

\* close() without a handle: nothing happens
ExCloseClosed ==
    /\ ex_nops < MaxExportOps
    /\ file_handle = "None"
    /\ ex_last' = ExCall("close", FALSE)
    /\ ex_nops' = ex_nops + 1
    /\ UNCHANGED << file_handle, ex_count, ex_written, ex_session >>
    /\ ExFrame

ExNext ==
    \/ ExOpen
    \/ ExOpenFails
    \/ ExWriteClosed
    \/ ExWrite
    \/ ExWriteFails
    \/ ExClose
    \/ ExCloseClosed

(***************************************************************************)
(* UnifiedSearchClient.search with a mode override: the method saves       *)
(* self.fallback_mode, overwrites it, calls search_with_filters and puts   *)
(* the saved value back in a finally block.  self.fallback_mode is an      *)
(* attribute of the client, shared by every thread that calls search; no   *)
(* lock is taken.  search_with_filters reads the attribute once per        *)
(* comparison of its if/elif chain.                                        *)
(***************************************************************************)
\* how many search calls the threads make
MaxSearchCalls == 3

\* the mode arguments of the calls
ModeArgs == {"None", "parallel", "first", "bogus"}

\* a finally block that leaves the override in place
RestoredNever(arg, original, current) == current

\* the finally block: the value self.fallback_mode has after it
Restored(arg, original, current) == IF arg # "None" THEN original ELSE current

OvIdle ==
    /\ ov_pc = [t \in Threads |-> "idle"]
    /\ ov_arg = [t \in Threads |-> "None"]
    /\ ov_original = [t \in Threads |-> "sequential"]
    /\ ov_dispatched = [t \in Threads |-> "none"]
    /\ ov_outcome = [t \in Threads |-> "none"]
    /\ ov_before = "sequential"
    /\ ov_overlap = FALSE
    /\ ov_ncalls = 0

\* a constructed client, with whatever fallback_mode, and no call yet
OvInit ==
    /\ ~fail_fast
    /\ Len(clients) = 1
    /\ ov_pc = [t \in Threads |-> "idle"]
    /\ ov_arg = [t \in Threads |-> "None"]
    /\ ov_original = [t \in Threads |-> fallback_mode]
    /\ ov_dispatched = [t \in Threads |-> "none"]
    /\ ov_outcome = [t \in Threads |-> "none"]
    /\ ov_before = fallback_mode
    /\ ov_overlap = FALSE
    /\ ov_ncalls = 0

\* search(mode=m) is called: original_mode = self.fallback_mode
OvEnter(t) ==
    /\ ov_pc[t] = "idle"
    /\ ov_ncalls < MaxSearchCalls
    /\ \E m \in ModeArgs : ov_arg' = [ov_arg EXCEPT ![t] = m]
    /\ ov_original' = [ov_original EXCEPT ![t] = fallback_mode]
    /\ ov_dispatched' = [ov_dispatched EXCEPT ![t] = "none"]
    /\ ov_outcome' = [ov_outcome EXCEPT ![t] = "none"]
    /\ ov_overlap' = (ov_overlap \/ \E u \in Threads \ {t} : ov_pc[u] # "idle")
    /\ ov_ncalls' = ov_ncalls + 1
    /\ ov_pc' = [ov_pc EXCEPT ![t] = "saved"]
    /\ UNCHANGED << fallback_mode, ov_before >>
    /\ OvFrame

\* if mode is not None: self.fallback_mode = mode
OvOverride(t) ==
    /\ ov_pc[t] = "saved"
    /\ fallback_mode' = IF ov_arg[t] # "None" THEN ov_arg[t] ELSE fallback_mode
    /\ ov_pc' = [ov_pc EXCEPT ![t] = "parallel"]
    /\ UNCHANGED << ov_arg, ov_original, ov_dispatched, ov_outcome, ov_before,
                    ov_overlap, ov_ncalls >>
    /\ OvFrame

\* search_with_filters: one comparison of the chain, `self.fallback_mode ==
\* "parallel"`, then "sequential", then "first", then the else branch that
\* raises ConfigurationError
OvTest(t) ==
    /\ ov_pc[t] \in {"parallel", "sequential", "first"}
    /\ IF fallback_mode = ov_pc[t]
       THEN /\ ov_dispatched' = [ov_dispatched EXCEPT ![t] = ov_pc[t]]
            /\ ov_pc' = [ov_pc EXCEPT ![t] = "searching"]
            /\ UNCHANGED ov_outcome
       ELSE IF ov_pc[t] = "first"
            THEN /\ ov_dispatched' = [ov_dispatched EXCEPT ![t] = "else"]
                 /\ ov_outcome' = [ov_outcome EXCEPT ![t] = "ConfigurationError"]
                 /\ ov_pc' = [ov_pc EXCEPT ![t] = "finally"]
            ELSE /\ ov_pc' = [ov_pc EXCEPT ![t] =
                                 IF ov_pc[t] = "parallel" THEN "sequential" ELSE "first"]
                 /\ UNCHANGED << ov_dispatched, ov_outcome >>
    /\ UNCHANGED << fallback_mode, ov_arg, ov_original, ov_before, ov_overlap,
                    ov_ncalls >>
    /\ OvFrame

\* the dispatched _search_* method returns or raises SearchError
OvSearchEnds(t) ==
    /\ ov_pc[t] = "searching"
    /\ \E o \in {"returned", "SearchError"} :
          ov_outcome' = [ov_outcome EXCEPT ![t] = o]
    /\ ov_pc' = [ov_pc EXCEPT ![t] = "finally"]
    /\ UNCHANGED << fallback_mode, ov_arg, ov_original, ov_dispatched, ov_before,
                    ov_overlap, ov_ncalls >>
    /\ OvFrame

\* finally: if mode is not None: self.fallback_mode = original_mode
OvFinally(t) ==
    /\ ov_pc[t] = "finally"
    /\ fallback_mode' = Restored(ov_arg[t], ov_original[t], fallback_mode)
    /\ ov_pc' = [ov_pc EXCEPT ![t] = "idle"]
    /\ UNCHANGED << ov_arg, ov_original, ov_dispatched, ov_outcome, ov_before,
                    ov_overlap, ov_ncalls >>
    /\ OvFrame

OvNext ==
    \/ \E t \in Threads : OvEnter(t)
    \/ \E t \in Threads : OvOverride(t)
    \/ \E t \in Threads : OvTest(t)
    \/ \E t \in Threads : OvSearchEnds(t)
    \/ \E t \in Threads : OvFinally(t)

(***************************************************************************)
(* SimpleRateLimiter with requests_per_second a float that is not a whole  *)
(* number (DatabaseConfig.rate_limit_per_second is a float > 0): the cap   *)
(* is the fraction numerator / denominator, and `len(window) >= cap` is    *)
(* compared without division.  One caller, no per-minute cap.              *)
(***************************************************************************)
\* how many wait_if_needed calls the caller makes
MaxFractionCalls == 4

\* the caps: 0.5 and 1.5 requests per second
FractionCaps == { <<1, 2>>, <<3, 2>> }

\* by how much time.time() can have advanced since the last reading
FrAdvances == {0, 1, 2, 3, 4}

\* the wait the per-second window asks for under cap num/den
FractionWait(cap, window, now) ==
    IF Len(window) * cap[2] >= cap[1]
    THEN Max(0, SecondWindow - (now - window[1]))
    ELSE 0

FrInit ==
    /\ fr_cap \in FractionCaps
    /\ fr_window = <<>>
    /\ fr_clock = 0
    /\ fr_admitted = <<>>
    /\ fr_ncalls = 0

FrIdle ==
    /\ fr_cap = <<1, 2>>
    /\ fr_window = <<>>
    /\ fr_clock = 0
    /\ fr_admitted = <<>>
    /\ fr_ncalls = 0

\* a wait_if_needed call that finds no wait: clean, record, return
FrAdmit ==
    /\ fr_ncalls < MaxFractionCalls
    /\ \E d \in FrAdvances :
          LET now == fr_clock + d
              sw == clean_window(fr_window, now, SecondWindow)
              wait_time == FractionWait(fr_cap, sw, now)
          IN  /\ ~(wait_time > 0)
              /\ fr_clock' = now
              /\ fr_window' = Append(sw, now)
              /\ fr_admitted' = Append(fr_admitted, now)
    /\ fr_ncalls' = fr_ncalls + 1
    /\ UNCHANGED fr_cap
    /\ FrFrame

\* a wait_if_needed call that finds a wait: clean, sleep, read the time
\* again, record, return
FrWait ==
    /\ fr_ncalls < MaxFractionCalls
    /\ \E d \in FrAdvances, o \in Overshoots :
          LET now == fr_clock + d
              sw == clean_window(fr_window, now, SecondWindow)
              wait_time == FractionWait(fr_cap, sw, now)
              woken == now + wait_time + o
          IN  /\ wait_time > 0
              /\ fr_clock' = woken
              /\ fr_window' = Append(sw, woken)
              /\ fr_admitted' = Append(fr_admitted, woken)
    /\ fr_ncalls' = fr_ncalls + 1
    /\ UNCHANGED fr_cap
    /\ FrFrame

FrNext == FrAdmit \/ FrWait

(***************************************************************************)
(* UnifiedSearchClient.get_by_doi: the clients of db_list in turn, the     *)
(* first paper returned.                                                   *)
(***************************************************************************)
\* how long a databases argument can be
MaxDoiList == 2

\* the names a caller can pass; "unknown" is a name that is never registered
DoiNames == {"crossref", "openalex", "unknown"}

NoPaper == [kind |-> "None", source |-> ""]
PaperOf(db_name) == [kind |-> "paper", source |-> db_name]

GdInit ==
    /\ \E n \in 1..MaxBackends : gd_clients = SubSeq(AvailableClients, 1, n)
    /\ gd_databases \in {None} \cup SeqsUpTo(DoiNames, MaxDoiList)
    /\ gd_list = <<>>
    /\ gd_idx = 1
    /\ gd_calls = <<>>
    /\ gd_result = [kind |-> "pending", source |-> ""]
    /\ gd_pc = "idle"

GdIdle ==
    /\ gd_clients = <<"crossref">>
    /\ gd_databases = None
    /\ gd_list = <<>>
    /\ gd_idx = 1
    /\ gd_calls = <<>>
    /\ gd_result = [kind |-> "pending", source |-> ""]
    /\ gd_pc = "idle"

\* db_list = databases or list(self.clients.keys())
GdBegin ==
    /\ gd_pc = "idle"
    /\ gd_list' = IF gd_databases = None \/ gd_databases = <<>>
                  THEN gd_clients
                  ELSE gd_databases
    /\ gd_idx' = 1
    /\ gd_pc' = "loop"
    /\ UNCHANGED << gd_clients, gd_databases, gd_calls, gd_result >>
    /\ GdFrame

\* "if db_name not in self.clients: continue"
GdSkip ==
    /\ gd_pc = "loop"
    /\ gd_idx <= Len(gd_list)
    /\ gd_list[gd_idx] \notin Range(gd_clients)
    /\ gd_idx' = gd_idx + 1
    /\ UNCHANGED << gd_clients, gd_databases, gd_list, gd_calls, gd_result, gd_pc >>
    /\ GdFrame

\* the client returns a paper: get_by_doi returns it
GdFound ==
    /\ gd_pc = "loop"
    /\ gd_idx <= Len(gd_list)
    /\ gd_list[gd_idx] \in Range(gd_clients)
    /\ gd_calls' = Append(gd_calls, [db |-> gd_list[gd_idx], outcome |-> "paper"])
    /\ gd_result' = PaperOf(gd_list[gd_idx])
    /\ gd_pc' = "returned"
    /\ UNCHANGED << gd_clients, gd_databases, gd_list, gd_idx >>
    /\ GdFrame

\* the client returns None: the loop goes on
GdNothing ==
    /\ gd_pc = "loop"
    /\ gd_idx <= Len(gd_list)
    /\ gd_list[gd_idx] \in Range(gd_clients)
    /\ gd_calls' = Append(gd_calls, [db |-> gd_list[gd_idx], outcome |-> "None"])
    /\ gd_idx' = gd_idx + 1
    /\ UNCHANGED << gd_clients, gd_databases, gd_list, gd_result, gd_pc >>
    /\ GdFrame

\* the client raises and the exception leaves get_by_doi
GdRaisesPropagates ==
    /\ gd_pc = "loop"
    /\ gd_idx <= Len(gd_list)
    /\ gd_list[gd_idx] \in Range(gd_clients)
    /\ gd_calls' = Append(gd_calls, [db |-> gd_list[gd_idx], outcome |-> "raised"])
    /\ gd_pc' = "raised"
    /\ UNCHANGED << gd_clients, gd_databases, gd_list, gd_idx, gd_result >>
    /\ GdFrame

\* the client raises: "except Exception" logs a warning and the loop goes on
GdRaises ==
    /\ gd_pc = "loop"
    /\ gd_idx <= Len(gd_list)
    /\ gd_list[gd_idx] \in Range(gd_clients)
    /\ gd_calls' = Append(gd_calls, [db |-> gd_list[gd_idx], outcome |-> "raised"])
    /\ gd_idx' = gd_idx + 1
    /\ UNCHANGED << gd_clients, gd_databases, gd_list, gd_result, gd_pc >>
    /\ GdFrame

\* the loop is over: "return None"
GdExhausted ==
    /\ gd_pc = "loop"
    /\ gd_idx > Len(gd_list)
    /\ gd_result' = NoPaper
    /\ gd_pc' = "returned"
    /\ UNCHANGED << gd_clients, gd_databases, gd_list, gd_idx, gd_calls >>
    /\ GdFrame

GdNext == GdBegin \/ GdSkip \/ GdFound \/ GdNothing \/ GdRaises \/ GdExhausted

(***************************************************************************)
(* PDFDownloader.download_paper and its counters.                          *)
(***************************************************************************)
\* how many download_paper calls are made
MaxDownloads == 4

\* the files a call can be asked to write
PdFileNames == {"a.pdf", "b.pdf"}

\* what the download directory holds under a name
PdFileStates == {"absent", "empty", "present"}

\* a call that took `path`, added one to the counter `counted` ("none" when
\* it added to none) and returned "None" or "path", or "raised"
PdEnded(path, counted, returned) ==
    [path |-> path, counted |-> counted, returned |-> returned]

\* self.stats after "attempted += 1" and one more on counter `counted`
PdCount(counted) ==
    [c \in DOMAIN pd_stats |->
        pd_stats[c] + (IF c = "attempted" THEN 1 ELSE 0)
                    + (IF c = counted THEN 1 ELSE 0)]

\* _check_existing_file: the file exists, overwrite is off and the file is
\* not empty
PdExists(f) == pd_files[f] = "present" /\ ~pd_overwrite

\* the directory after _check_existing_file: an empty file found with
\* overwrite off has been removed
PdChecked(f) ==
    IF pd_files[f] = "empty" /\ ~pd_overwrite
    THEN [pd_files EXCEPT ![f] = "absent"]
    ELSE pd_files

PdInit ==
    /\ pd_overwrite \in BOOLEAN
    /\ pd_stats = [attempted |-> 0, successful |-> 0, failed |-> 0, skipped |-> 0]
    /\ pd_files \in [PdFileNames -> PdFileStates]
    /\ pd_last = PdEnded("none", "none", "None")
    /\ pd_raised = 0
    /\ pd_ncalls = 0

PdIdle ==
    /\ pd_overwrite = FALSE
    /\ pd_stats = [attempted |-> 0, successful |-> 0, failed |-> 0, skipped |-> 0]
    /\ pd_files = [f \in PdFileNames |-> "absent"]
    /\ pd_last = PdEnded("none", "none", "None")
    /\ pd_raised = 0
    /\ pd_ncalls = 0

\* the paper has no pdf_url: skipped, None
PdNoUrl ==
    /\ pd_ncalls < MaxDownloads
    /\ pd_stats' = PdCount("skipped")
    /\ pd_last' = PdEnded("no_pdf_url", "skipped", "None")
    /\ pd_ncalls' = pd_ncalls + 1
    /\ UNCHANGED << pd_overwrite, pd_files, pd_raised >>
    /\ PdFrame

\* output_dir.mkdir, filepath.exists, stat or unlink raises OSError: these
\* run before the try block, so the exception leaves download_paper after
\* "attempted += 1" and before any other counter
PdSetupRaises ==
    /\ pd_ncalls < MaxDownloads
    /\ pd_stats' = PdCount("none")
    /\ pd_last' = PdEnded("setup_error", "none", "raised")
    /\ pd_raised' = pd_raised + 1
    /\ pd_ncalls' = pd_ncalls + 1
    /\ UNCHANGED << pd_overwrite, pd_files >>
    /\ PdFrame

\* the file already exists: skipped, its path returned
PdExisting ==
    /\ pd_ncalls < MaxDownloads
    /\ \E f \in PdFileNames :
          /\ PdExists(f)
          /\ pd_stats' = PdCount("skipped")
          /\ pd_last' = PdEnded("existing_file", "skipped", "path")
    /\ pd_ncalls' = pd_ncalls + 1
    /\ UNCHANGED << pd_overwrite, pd_files, pd_raised >>
    /\ PdFrame

\* the paths that end before the file is opened: Content-Length of the HEAD
\* response over the limit, HTTPError of raise_for_status, and Timeout,
\* RequestException or any other exception of head or get: failed, None
PdFailsEarly ==
    /\ pd_ncalls < MaxDownloads
    /\ \E f \in PdFileNames,
          path \in {"oversize_head", "http_error", "timeout", "request_exception",
                    "other_exception"} :
          /\ ~PdExists(f)
          /\ pd_files' = PdChecked(f)
          /\ pd_stats' = PdCount("failed")
          /\ pd_last' = PdEnded(path, "failed", "None")
    /\ pd_ncalls' = pd_ncalls + 1
    /\ UNCHANGED << pd_overwrite, pd_raised >>
    /\ PdFrame

\* the paths that remove the file they wrote: size limit passed during the
\* download, content that is not a PDF: failed, None
PdFailsRemoving ==
    /\ pd_ncalls < MaxDownloads
    /\ \E f \in PdFileNames, path \in {"oversize_stream", "invalid_content"} :
          /\ ~PdExists(f)
          /\ pd_files' = [pd_files EXCEPT ![f] = "absent"]
          /\ pd_stats' = PdCount("failed")
          /\ pd_last' = PdEnded(path, "failed", "None")
    /\ pd_ncalls' = pd_ncalls + 1
    /\ UNCHANGED << pd_overwrite, pd_raised >>
    /\ PdFrame

\* an exception while the file is being written (Timeout, RequestException
\* of iter_content, OSError of write): failed, None, and what was written
\* stays on disk
PdFailsWriting ==
    /\ pd_ncalls < MaxDownloads
    /\ \E f \in PdFileNames,
          path \in {"timeout", "request_exception", "other_exception"},
          left \in {"empty", "present"} :
          /\ ~PdExists(f)
          /\ pd_files' = [pd_files EXCEPT ![f] = left]
          /\ pd_stats' = PdCount("failed")
          /\ pd_last' = PdEnded(path, "failed", "None")
    /\ pd_ncalls' = pd_ncalls + 1
    /\ UNCHANGED << pd_overwrite, pd_raised >>
    /\ PdFrame

\* the download succeeds: successful, the path returned
PdSuccess ==
    /\ pd_ncalls < MaxDownloads
    /\ \E f \in PdFileNames :
          /\ ~PdExists(f)
          /\ pd_files' = [pd_files EXCEPT ![f] = "present"]
          /\ pd_stats' = PdCount("successful")
          /\ pd_last' = PdEnded("success", "successful", "path")
    /\ pd_ncalls' = pd_ncalls + 1
    /\ UNCHANGED << pd_overwrite, pd_raised >>
    /\ PdFrame

PdNext ==
    \/ PdNoUrl
    \/ PdSetupRaises
    \/ PdExisting
    \/ PdFailsEarly
    \/ PdFailsRemoving
    \/ PdFailsWriting
    \/ PdSuccess

(***************************************************************************)
(* The limiters of several backends.  Every DatabaseClient builds its own  *)
(* RateLimiter, which builds its own SimpleRateLimiter with its own Lock   *)
(* and deques; DatabaseRateLimiter keeps one RateLimiter per database name *)
(* and holds its own lock for the dictionary lookup only.                  *)
(***************************************************************************)
\* how many wait_if_needed calls the threads make on the backends' limiters
MaxDbCalls == 3

\* the backends that have a limiter
DbBackends == {"crossref", "openalex"}

\* a database name DatabaseRateLimiter has no limiter for
Unregistered == "dblp"

\* by how much time.time() can have advanced between two readings
DbAdvances == {0, 1, 2}

\* a Lock that is an attribute of the class, shared by every limiter
LimiterLockShared(db) == "crossref"

\* the Lock object of a backend's limiter: one per SimpleRateLimiter instance
LimiterLock(db) == db

\* the limiter a call of thread t works on
TargetLimiter(t) == limiters[db_target[t]]

\* the backends in whose limiter a thread is sleeping
SleptIn == {db_target[t] : t \in {x \in Threads : db_pc[x] = "sleeping"}}

\* the windows of a limiter after _clean_window at time now
Cleaned(l, now) ==
    [l EXCEPT
        !.second_window = IF l.requests_per_second # 0
                          THEN clean_window(@, now, SecondWindow) ELSE @,
        !.minute_window = IF l.requests_per_minute # 0
                          THEN clean_window(@, now, MinuteWindow) ELSE @]

\* wait_time as wait_if_needed computes it from the cleaned windows
WaitTime(l, now) ==
    Max(WindowWait(l.requests_per_second, l.second_window, now, SecondWindow),
        WindowWait(l.requests_per_minute, l.minute_window, now, MinuteWindow))

\* "Record this request" on both windows
Recorded(l, now) ==
    [l EXCEPT !.second_window = Record(l.requests_per_second, @, now),
              !.minute_window = Record(l.requests_per_minute, @, now)]

DbInit ==
    /\ limiters \in [DbBackends ->
                        [requests_per_second : {1, 2}, requests_per_minute : {0, 2},
                         second_window : {<<>>}, minute_window : {<<>>}]]
    /\ limiter_lock = [l \in {LimiterLock(db) : db \in DbBackends} |-> "free"]
    /\ manager_lock = "free"
    /\ db_pc = [t \in Threads |-> "idle"]
    /\ db_target = [t \in Threads |-> "crossref"]
    /\ db_clock = 0
    /\ db_wake = [t \in Threads |-> 0]
    /\ db_ncalls = 0
    /\ db_log = <<>>

DbIdle ==
    /\ limiters = [db \in DbBackends |->
                      [requests_per_second |-> 1, requests_per_minute |-> 0,
                       second_window |-> <<>>, minute_window |-> <<>>]]
    /\ limiter_lock = [l \in {LimiterLock(db) : db \in DbBackends} |-> "free"]
    /\ manager_lock = "free"
    /\ db_pc = [t \in Threads |-> "idle"]
    /\ db_target = [t \in Threads |-> "crossref"]
    /\ db_clock = 0
    /\ db_wake = [t \in Threads |-> 0]
    /\ db_ncalls = 0
    /\ db_log = <<>>

\* a thread calls client.rate_limiter.wait_if_needed() of a backend's client
\* and reaches "with self._lock" of its SimpleRateLimiter
DbCallDirect(t, db) ==
    /\ db_pc[t] = "idle"
    /\ db_ncalls < MaxDbCalls
    /\ db_ncalls' = db_ncalls + 1
    /\ db_target' = [db_target EXCEPT ![t] = db]
    /\ db_pc' = [db_pc EXCEPT ![t] = "blocked"]
    /\ UNCHANGED << limiters, limiter_lock, manager_lock, db_clock, db_wake, db_log >>
    /\ DbFrame

\* a thread calls DatabaseRateLimiter.wait_if_needed(database) and reaches
\* the manager's "with self._lock"
DbCallManager(t, db) ==
    /\ db_pc[t] = "idle"
    /\ db_ncalls < MaxDbCalls
    /\ db_ncalls' = db_ncalls + 1
    /\ db_target' = [db_target EXCEPT ![t] = db]
    /\ db_pc' = [db_pc EXCEPT ![t] = "manager"]
    /\ UNCHANGED << limiters, limiter_lock, manager_lock, db_clock, db_wake, db_log >>
    /\ DbFrame

\* the thread takes the manager's lock and reads self._limiters.get(database)
DbManagerLookup(t) ==
    /\ db_pc[t] = "manager"
    /\ manager_lock = "free"
    /\ manager_lock' = t
    /\ db_pc' = [db_pc EXCEPT ![t] = "lookup"]
    /\ UNCHANGED << limiters, limiter_lock, db_target, db_clock, db_wake, db_ncalls,
                    db_log >>
    /\ DbFrame

\* the with block ends: the lock is released; without a limiter the call
\* returns, with one it goes on to limiter.wait_if_needed()
DbManagerRelease(t) ==
    /\ db_pc[t] = "lookup"
    /\ manager_lock = t
    /\ manager_lock' = "free"
    /\ db_pc' = [db_pc EXCEPT ![t] = IF db_target[t] \in DOMAIN limiters
                                     THEN "blocked" ELSE "idle"]
    /\ UNCHANGED << limiters, limiter_lock, db_target, db_clock, db_wake, db_ncalls,
                    db_log >>
    /\ DbFrame

\* the thread takes the limiter's lock, finds no wait, records, releases
DbAdmit(t) ==
    /\ db_pc[t] = "blocked"
    /\ limiter_lock[LimiterLock(db_target[t])] = "free"
    /\ \E d \in DbAdvances :
          LET now == db_clock + d
              l == Cleaned(TargetLimiter(t), now)
          IN  /\ ~(WaitTime(l, now) > 0)
              /\ db_clock' = now
              /\ limiters' = [limiters EXCEPT ![db_target[t]] = Recorded(l, now)]
              /\ db_log' = Append(db_log, [db |-> db_target[t], at |-> now,
                                           during |-> SleptIn])
    /\ db_pc' = [db_pc EXCEPT ![t] = "idle"]
    /\ UNCHANGED << limiter_lock, manager_lock, db_target, db_wake, db_ncalls >>
    /\ DbFrame

\* the thread takes the limiter's lock, finds a wait and sleeps holding it
DbSleep(t) ==
    /\ db_pc[t] = "blocked"
    /\ limiter_lock[LimiterLock(db_target[t])] = "free"
    /\ \E d \in DbAdvances :
          LET now == db_clock + d
              l == Cleaned(TargetLimiter(t), now)
          IN  /\ WaitTime(l, now) > 0
              /\ db_clock' = now
              /\ limiters' = [limiters EXCEPT ![db_target[t]] = l]
              /\ db_wake' = [db_wake EXCEPT ![t] = now + WaitTime(l, now)]
    /\ limiter_lock' = [limiter_lock EXCEPT ![LimiterLock(db_target[t])] = t]
    /\ db_pc' = [db_pc EXCEPT ![t] = "sleeping"]
    /\ UNCHANGED << manager_lock, db_target, db_ncalls, db_log >>
    /\ DbFrame

\* time.sleep returns: the thread reads the time, records, releases the lock
DbWake(t) ==
    /\ db_pc[t] = "sleeping"
    /\ limiter_lock[LimiterLock(db_target[t])] = t
    /\ \E o \in Overshoots :
          LET now == Max(db_clock, db_wake[t] + o)
          IN  /\ db_clock' = now
              /\ limiters' = [limiters EXCEPT
                                 ![db_target[t]] = Recorded(TargetLimiter(t), now)]
              /\ db_log' = Append(db_log, [db |-> db_target[t], at |-> now,
                                           during |-> SleptIn \ {db_target[t]}])
    /\ limiter_lock' = [limiter_lock EXCEPT ![LimiterLock(db_target[t])] = "free"]
    /\ db_pc' = [db_pc EXCEPT ![t] = "idle"]
    /\ UNCHANGED << manager_lock, db_target, db_wake, db_ncalls >>
    /\ DbFrame

DbNext ==
    \/ \E t \in Threads, db \in DbBackends : DbCallDirect(t, db)
    \/ \E t \in Threads, db \in DbBackends \cup {Unregistered} : DbCallManager(t, db)
    \/ \E t \in Threads : DbManagerLookup(t)
    \/ \E t \in Threads : DbManagerRelease(t)
    \/ \E t \in Threads : DbAdmit(t)
    \/ \E t \in Threads : DbSleep(t)
    \/ \E t \in Threads : DbWake(t)

(***************************************************************************)
(* Specifications.                                                         *)
(***************************************************************************)
OrchNext ==
    \/ SearchInvalidMode
    \/ SubmitAll
    \/ \E b \in Backends : WorkerReturn(b)
    \/ \E b \in Backends : WorkerRaise(b)
    \/ AsCompletedBegin
    \/ CollectResult
    \/ CollectFailure
    \/ CollectFailFast
    \/ ExecutorExit
    \/ SequentialBegin
    \/ SequentialResult
    \/ SequentialFailure
    \/ SequentialFailFast
    \/ FirstResult
    \/ FirstFailure

\* one search_with_filters call on a client
Init == OrchInit /\ SrInit /\ RetryIdle /\ LimIdle /\ DbIdle /\ PoolIdle /\ ExInit /\ OvIdle
    /\ FrIdle /\ GdIdle /\ PdIdle
Next == OrchNext
Spec == Init /\ [][Next]_vars

\* a SearchResult under add_paper, deduplication and filtering
InitResult == OrchIdle /\ SrInit /\ RetryIdle /\ LimIdle /\ DbIdle /\ PoolIdle /\ ExInit /\ OvIdle
    /\ FrIdle /\ GdIdle /\ PdIdle
NextResult == SrNext
SpecResult == InitResult /\ [][NextResult]_vars

\* one call through the retry executor
InitRetry == OrchIdle /\ SrInit /\ RetryInit /\ LimIdle /\ DbIdle /\ PoolIdle /\ ExInit /\ OvIdle
    /\ FrIdle /\ GdIdle /\ PdIdle
NextRetry == RetryNext
SpecRetry == InitRetry /\ [][NextRetry]_vars

\* threads calling wait_if_needed on one limiter
InitLimiter == OrchIdle /\ SrInit /\ RetryIdle /\ LimInit /\ DbIdle /\ PoolIdle /\ ExInit /\ OvIdle
    /\ FrIdle /\ GdIdle /\ PdIdle
NextLimiter == LimNext
SpecLimiter == InitLimiter /\ [][NextLimiter]_vars

\* one batch_lookup call on a client
InitBatch == BatchInit /\ SrInit /\ RetryIdle /\ LimIdle /\ DbIdle /\ PoolIdle /\ ExInit /\ OvIdle
    /\ FrIdle /\ GdIdle /\ PdIdle
NextBatch == BatchNext
SpecBatch == InitBatch /\ [][NextBatch]_vars

\* field_statistics calls on a SearchResult that grows
InitStats == OrchIdle /\ SrInit /\ RetryIdle /\ LimIdle /\ DbIdle /\ PoolIdle /\ ExInit /\ OvIdle
    /\ FrIdle /\ GdIdle /\ PdIdle
NextStats == StatNext
SpecStats == InitStats /\ [][NextStats]_vars

\* threads calling get_session and close_session of SessionPool
InitPool == OrchIdle /\ SrInit /\ RetryIdle /\ LimIdle /\ DbIdle /\ PoolInit /\ ExInit /\ OvIdle
    /\ FrIdle /\ GdIdle /\ PdIdle
NextPool == PoolNext
SpecPool == InitPool /\ [][NextPool]_vars

\* open, write_paper and close calls on a StreamingExporter
InitExporter ==
    /\ OrchIdle /\ SrInit /\ RetryIdle /\ LimIdle /\ DbIdle /\ PoolIdle /\ ExInit
    /\ OvIdle /\ FrIdle /\ GdIdle /\ PdIdle
NextExporter == ExNext
SpecExporter == InitExporter /\ [][NextExporter]_vars

\* threads calling search with and without a mode override on one client
InitOverride ==
    /\ OrchInit /\ SrInit /\ RetryIdle /\ LimIdle /\ DbIdle /\ PoolIdle /\ ExInit
    /\ OvInit /\ FrIdle /\ GdIdle /\ PdIdle
NextOverride == OvNext
SpecOverride == InitOverride /\ [][NextOverride]_vars

\* the same threads under a fair schedule: the lock is granted fairly to
\* every thread that waits for it (strong fairness, since the lock is taken
\* and released again and again), and time advances, so every time.sleep
\* returns (weak fairness)
LimFairness ==
    \A t \in Threads :
        /\ SF_vars(LimAdmit(t) \/ LimSleep(t))
        /\ WF_vars(LimWake(t))
InitLimiterFair ==
    /\ InitLimiter
    /\ << requests_per_second, requests_per_minute >> \in CappedLimiters
SpecLimiterFair == InitLimiterFair /\ [][NextLimiter]_vars /\ LimFairness

\* one get_by_doi call
InitDoi ==
    /\ OrchIdle /\ SrInit /\ RetryIdle /\ LimIdle /\ DbIdle /\ PoolIdle /\ ExInit
    /\ OvIdle /\ FrIdle /\ GdInit /\ PdIdle
NextDoi == GdNext
SpecDoi == InitDoi /\ [][NextDoi]_vars

\* download_paper calls on one PDFDownloader
InitDownloader ==
    /\ OrchIdle /\ SrInit /\ RetryIdle /\ LimIdle /\ DbIdle /\ PoolIdle /\ ExInit
    /\ OvIdle /\ FrIdle /\ GdIdle /\ PdInit
NextDownloader == PdNext
SpecDownloader == InitDownloader /\ [][NextDownloader]_vars

\* one caller of a limiter whose per-second cap is not a whole number
InitFraction ==
    /\ OrchIdle /\ SrInit /\ RetryIdle /\ LimIdle /\ DbIdle /\ PoolIdle /\ ExInit
    /\ OvIdle /\ FrInit /\ GdIdle /\ PdIdle
NextFraction == FrNext
SpecFraction == InitFraction /\ [][NextFraction]_vars

\* threads calling the limiters of several backends
InitBackends == OrchIdle /\ SrInit /\ RetryIdle /\ LimIdle /\ DbInit /\ PoolIdle /\ ExInit /\ OvIdle
    /\ FrIdle /\ GdIdle /\ PdIdle
NextBackends == DbNext
SpecBackends == InitBackends /\ [][NextBackends]_vars

(***************************************************************************)
(* Properties of search_with_filters (Spec).                               *)
(***************************************************************************)
RECURSIVE Flatten(_)
Flatten(qs) == IF qs = <<>> THEN <<>> ELSE Head(qs) \o Flatten(Tail(qs))

NoRepeats(q) == \A i, j \in DOMAIN q : i # j => q[i] # q[j]

Succeeded == {b \in Backends : status[b] = "ok"}
Failed == {b \in Backends : status[b] = "failed"}

\* C1: in parallel mode with fail_fast off, whatever backends fail, the call
\* never raises; the result it returns lists in databases_queried exactly
\* the backends whose search succeeded, each once, and the records handed
\* to the deduplicator are exactly the records these backends returned
C1_ParallelIsolation ==
    (fallback_mode = "parallel" /\ ~fail_fast) =>
        /\ pc \notin {"aborting", "raised"}
        /\ error = "none"
        /\ pc = "returned" =>
              /\ Backends = Succeeded \cup Failed
              /\ Range(results.databases_queried) = Succeeded
              /\ NoRepeats(results.databases_queried)
              /\ Range(results.databases_queried) \cap Failed = {}
              /\ collected = Flatten([i \in DOMAIN results.databases_queried |->
                                         response[results.databases_queried[i]]])
              /\ \A b \in Failed : \A i \in DOMAIN collected :
                    collected[i].source_database # b

\* a parallel search without fail_fast has returned although a backend
\* failed, with the records of a backend that succeeded
C1_Witness ==
    /\ fallback_mode = "parallel" /\ ~fail_fast /\ pc = "returned"
    /\ Failed # {}
    /\ \E b \in Succeeded : response[b] # <<>> /\ collected = response[b]

\* C2: in parallel mode with fail_fast on, a call in which a backend's
\* search failed does not return a result: it ends raising SearchError,
\* whatever the other backends did and in whatever order they completed
C2_ParallelFailFast ==
    (fallback_mode = "parallel" /\ fail_fast) =>
        /\ pc = "returned" => Failed = {}
        /\ pc = "raised" => error = "SearchError" /\ Failed # {}
        /\ (Failed # {} /\ Backends = Succeeded \cup Failed)
              => (pc = "raised" \/ ENABLED Next)

\* a fail-fast parallel search has raised although a backend that completed
\* before the failing one had returned records
C2_Witness ==
    /\ fallback_mode = "parallel" /\ fail_fast /\ pc = "raised"
    /\ Len(doneQ) = 2
    /\ status[doneQ[1]] = "ok" /\ response[doneQ[1]] # <<>>
    /\ status[doneQ[2]] = "failed"

\* C3: in sequential mode with fail_fast off, the backends are invoked in
\* registration order, one after the other; every backend invoked before
\* the last one failed or returned no record, and the call returns only
\* after a backend that returned records or after the last backend
C3_SequentialFallback ==
    (fallback_mode = "sequential" /\ ~fail_fast) =>
        /\ pc # "raised"
        /\ Len(calls) <= Len(clients)
        /\ calls = SubSeq(clients, 1, Len(calls))
        /\ \A i \in 1..(Len(calls) - 1) :
              status[calls[i]] = "failed" \/ response[calls[i]] = <<>>
        /\ pc = "returned" =>
              \/ Len(calls) = Len(clients)
              \/ (calls # <<>> /\ response[calls[Len(calls)]] # <<>>)
        /\ \A b \in Backends \ Range(calls) : status[b] = "idle"

\* the first backend failed, the second returned records, and the call
\* returned
C3_Witness ==
    /\ fallback_mode = "sequential" /\ ~fail_fast /\ pc = "returned"
    /\ Len(clients) = 2 /\ Len(calls) = 2
    /\ status[clients[1]] = "failed"
    /\ response[clients[2]] # <<>>

\* the records of backends A and B of a two-backend sequential search, when
\* each returned one record, the two with different non-empty identity keys
TwoDistinctRecords ==
    /\ fallback_mode = "sequential" /\ pc = "returned"
    /\ Len(clients) = 2
    /\ \A b \in Backends : status[b] = "ok" => Len(response[b]) = 1
    /\ status[clients[1]] = "ok"
    /\ status[clients[2]] # "failed"
    /\ AnyId(paper_id(response[clients[1]][1]))
    /\ required_fields \subseteq get_available_fields(response[clients[1]][1])
    /\ status[clients[2]] = "ok" =>
          /\ AnyId(paper_id(response[clients[2]][1]))
          /\ paper_id(response[clients[2]][1]) # paper_id(response[clients[1]][1])
          /\ required_fields \subseteq get_available_fields(response[clients[2]][1])

\* C4 as claimed: in sequential mode, with backends [A, B] that each succeed
\* with one distinct record, the merged list is [recordFromA, recordFromB]
C4_OrderingLawAsClaimed ==
    TwoDistinctRecords =>
        /\ Len(results.papers) = 2
        /\ results.papers[1].source_database = clients[1]
        /\ results.papers[2].source_database = clients[2]

\* C4 amended: with fail_fast on both backends are invoked and the merged
\* list is [recordFromA, recordFromB]; with fail_fast off the search stops
\* after A returned its record, B is not invoked and the merged list is
\* [recordFromA]
C4_OrderingLaw ==
    TwoDistinctRecords =>
        IF fail_fast
        THEN /\ status[clients[2]] = "ok"
             /\ results.papers = << response[clients[1]][1], response[clients[2]][1] >>
             /\ results.total_results = 2
        ELSE /\ status[clients[2]] = "idle"
             /\ results.papers = << response[clients[1]][1] >>
             /\ results.total_results = 1

\* a fail-fast sequential search over two backends returned both records
C4_Witness ==
    /\ TwoDistinctRecords
    /\ fail_fast
    /\ status[clients[2]] = "ok"
    /\ Len(results.papers) = 2

(***************************************************************************)
(* Properties of the deduplicator (SpecResult).                            *)
(***************************************************************************)
\* the positions of a paper list the deduplicator is to keep: the key is
\* not entirely empty and occurs at no earlier position
KeptPositions(papers) ==
    {i \in DOMAIN papers :
        /\ AnyId(paper_id(papers[i]))
        /\ \A j \in 1..(i - 1) : paper_id(papers[j]) # paper_id(papers[i])}

\* the subsequence of a list at a set of positions, in the list's order
SubseqAt(papers, K) ==
    [n \in 1..Cardinality(K) |->
        papers[CHOOSE i \in K : Cardinality({j \in K : j <= i}) = n]]

\* a record with no identifier and no title
Unidentifiable(p) ==
    /\ p.doi \in {None, <<>>}
    /\ p.pmid \in {None, <<>>}
    /\ p.arxiv_id \in {None, <<>>}
    /\ p.title = <<>>

\* C5: the deduplicator's output is the subsequence of its input made of
\* the first occurrence of every identity key that is not entirely empty,
\* in input order; a record without identifier and title is never in it
C5_DedupFirstOccurrences ==
    sr_op = "deduplicate" =>
        /\ sr.papers = SubseqAt(sr_prev, KeptPositions(sr_prev))
        /\ \A i \in DOMAIN sr.papers : ~Unidentifiable(sr.papers[i])

\* a list with a duplicate and an unidentifiable record was deduplicated
\* and something was kept
C5_Witness ==
    /\ sr_op = "deduplicate"
    /\ Len(sr_prev) = 3
    /\ \E i, j \in DOMAIN sr_prev : i < j /\ paper_id(sr_prev[i]) = paper_id(sr_prev[j])
                                     /\ sr_prev[i] # sr_prev[j]
    /\ \E i \in DOMAIN sr_prev : Unidentifiable(sr_prev[i])
    /\ sr.papers # <<>>

\* C6: deduplicating a result that was just deduplicated changes nothing:
\* the same records in the same order and the same total_results
C6_DedupIdempotent ==
    (sr_op = "deduplicate" /\ sr_prev_op = "deduplicate") =>
        /\ sr.papers = sr_prev
        /\ sr.total_results = Len(sr_prev)

\* a list from which the first deduplication removed records was
\* deduplicated a second time
C6_Witness ==
    /\ sr_op = "deduplicate" /\ sr_prev_op = "deduplicate"
    /\ Len(sr.papers) = 2
    /\ sr_prev = sr.papers

(***************************************************************************)
(* Properties of the retry executor (SpecRetry).                           *)
(***************************************************************************)
\* C7: a call whose attempts fail with exceptions of retry_on returns after
\* k failures, k <= max_retries, with func invoked k + 1 times, and raises
\* only after max_retries + 1 failed invocations; func is not invoked after
\* the call has returned or raised
C7_RetryCeiling ==
    /\ rt_pc = "returned" =>
          /\ attempts = nfail + 1
          /\ nfail <= max_retries
          /\ nsleeps = nfail
    /\ (rt_pc = "raised" /\ IsInstance(rt_raised, retry_on)) =>
          /\ attempts = max_retries + 1
          /\ nfail = max_retries + 1
          /\ nsleeps = max_retries
    /\ rt_pc \in {"returned", "raised"} => ~ENABLED NextRetry
    /\ attempts <= max_retries + 1

\* func failed max_retries = 3 times with retryable errors and then returned
C7_Witness ==
    /\ rt_pc = "returned"
    /\ max_retries = 3
    /\ nfail = 3
    /\ attempts = 4

\* C8: an exception outside retry_on (an authentication failure, a
\* validation failure, any other type) ends the call at once: it is the
\* exception raised to the caller, func is not invoked after it, no delay is
\* taken for it and it uses up no retry
C8_NonRetryablePropagates ==
    /\ (rt_last # NoError /\ ~IsInstance(rt_last, retry_on)) =>
          /\ rt_pc = "raised"
          /\ rt_raised = rt_last
          /\ attempts = rt_last.attempt
          /\ nsleeps = attempts - 1
          /\ retries = attempts - 1
          /\ ~ENABLED NextRetry
    /\ rt_last.kind \in {"AuthenticationError", "ValidationError", "ValueError"} =>
          rt_pc = "raised" /\ rt_raised = rt_last

\* an authentication failure at the third invocation, after two retried
\* failures, was raised to the caller
C8_Witness ==
    /\ rt_pc = "raised"
    /\ rt_raised.kind = "AuthenticationError"
    /\ attempts = 3
    /\ nsleeps = 2

\* the first invocation raised a validation failure
C8_WitnessFirst ==
    /\ rt_pc = "raised"
    /\ rt_raised.kind = "ValidationError"
    /\ attempts = 1
    /\ nsleeps = 0

(***************************************************************************)
(* Properties of the rate limiter (SpecLimiter).  admitted is the list of  *)
(* the timestamps wait_if_needed recorded, in the order of recording.      *)
(***************************************************************************)
\* the admissions in the window of the given size that ends at admission i,
\* its start excluded
InWindow(i, window_size) ==
    {j \in DOMAIN admitted :
        admitted[i] - window_size < admitted[j] /\ admitted[j] <= admitted[i]}

\* no window of the given size holds more admissions than a configured cap
CapHolds(cap, window_size) ==
    cap # 0 => \A i \in DOMAIN admitted : Cardinality(InWindow(i, window_size)) <= cap

WindowCapsHold ==
    /\ CapHolds(requests_per_second, SecondWindow)
    /\ CapHolds(requests_per_minute, MinuteWindow)

\* a configured window is the tail of the admissions: one timestamp for
\* every admitted call that has not been evicted, and nothing else
IsSuffix(window) ==
    /\ Len(window) <= Len(admitted)
    /\ window = SubSeq(admitted, Len(admitted) - Len(window) + 1, Len(admitted))

OneTimestampPerWindow ==
    /\ requests_per_second # 0 => IsSuffix(second_window)
    /\ requests_per_second = 0 => second_window = <<>>
    /\ requests_per_minute # 0 => IsSuffix(minute_window)
    /\ requests_per_minute = 0 => minute_window = <<>>

\* between taking the lock and recording, a call is alone in the body of
\* wait_if_needed
CheckWaitRecordAtomic ==
    /\ \A t, u \in Threads : (lt_pc[t] = "sleeping" /\ lt_pc[u] = "sleeping") => t = u
    /\ \A t \in Threads : lt_pc[t] = "sleeping" <=> lock = t
    /\ lock # "free" => ~ENABLED (\E t \in Threads : LimAdmit(t) \/ LimSleep(t))

\* C9: with integer caps N per second and M per minute, no window of one
\* second holds more than N admissions and no window of 60 seconds more than
\* M; at 2 requests per second the fifth of five calls is admitted no
\* sooner than 1.5 seconds after the first
C9_WindowCaps ==
    /\ WindowCapsHold
    /\ (requests_per_second = 2 /\ Len(admitted) >= 5) =>
          admitted[5] - admitted[1] >= 3

\* C10: under every interleaving of the threads the check-wait-record
\* sequence of a call is atomic, the configured caps hold, and every
\* admitted call has exactly one timestamp in each configured window
C10_ThreadSafety ==
    /\ CheckWaitRecordAtomic
    /\ OneTimestampPerWindow
    /\ CapHolds(requests_per_second, SecondWindow)
    /\ CapHolds(requests_per_minute, MinuteWindow)

\* the part of C10 that is about the mutex alone
C10_AtomicAndRecorded ==
    /\ CheckWaitRecordAtomic
    /\ OneTimestampPerWindow

(***************************************************************************)
(* Properties of the limiters of several backends (SpecBackends).          *)
(***************************************************************************)
\* the timestamps recorded for backend db, in the order of recording
RECURSIVE TimesOf(_, _)
TimesOf(log, db) ==
    IF log = <<>> THEN <<>>
    ELSE IF Head(log).db = db
         THEN <<Head(log).at>> \o TimesOf(Tail(log), db)
         ELSE TimesOf(Tail(log), db)

\* window holds timestamps of the given list only: it is a tail of it
IsTailOf(window, times) ==
    /\ Len(window) <= Len(times)
    /\ window = SubSeq(times, Len(times) - Len(window) + 1, Len(times))

\* thread u can take its next step
CanProceed(u) ==
    CASE db_pc[u] = "manager" -> ENABLED DbManagerLookup(u)
      [] db_pc[u] = "lookup"  -> ENABLED DbManagerRelease(u)
      [] db_pc[u] = "blocked" -> ENABLED (DbAdmit(u) \/ DbSleep(u))
      [] OTHER -> TRUE

\* C11: while a thread sleeps inside the limiter of one backend, a thread
\* calling the limiter of a different backend, directly or through
\* DatabaseRateLimiter, can always take its next step; the sleeping thread
\* holds no lock but that of its own limiter, and the windows of a backend
\* hold the timestamps of that backend's calls only
C11_BackendsIndependent ==
    /\ \A t, u \in Threads :
          (db_pc[t] = "sleeping" /\ u # t /\ db_target[u] # db_target[t]) =>
              CanProceed(u)
    /\ \A t \in Threads :
          db_pc[t] = "sleeping" =>
              /\ manager_lock # t
              /\ \A l \in DOMAIN limiter_lock :
                    limiter_lock[l] = t => l = LimiterLock(db_target[t])
    /\ \A db \in DbBackends :
          /\ limiters[db].requests_per_second # 0 =>
                IsTailOf(limiters[db].second_window, TimesOf(db_log, db))
          /\ limiters[db].requests_per_minute # 0 =>
                IsTailOf(limiters[db].minute_window, TimesOf(db_log, db))

\* while a thread sleeps in crossref's limiter, a call on openalex's limiter
\* was admitted during that sleep
C11_Witness ==
    \E t \in Threads :
        /\ db_pc[t] = "sleeping"
        /\ db_target[t] = "crossref"
        /\ db_clock < db_wake[t]
        /\ db_log # <<>>
        /\ db_log[Len(db_log)].db = "openalex"
        /\ "crossref" \in db_log[Len(db_log)].during

(***************************************************************************)
(* Further properties of search_with_filters (Spec).                       *)
(***************************************************************************)
\* the position of backend b in the queue q
PosIn(q, b) == CHOOSE i \in DOMAIN q : q[i] = b

\* the backends of list q come in the same relative order as in queue order
InOrderOf(q, order) ==
    /\ Range(q) \subseteq Range(order)
    /\ \A i, j \in DOMAIN q : i < j => PosIn(order, q[i]) < PosIn(order, q[j])

\* the accumulation list of a parallel search: results.papers until it is
\* handed to the deduplicator
Accumulated == IF pc = "returned" THEN collected ELSE results.papers

\* the backends that contributed a non-empty block, in the order of the blocks
BlockOrder == SelectSeq(results.databases_queried, LAMBDA b : response[b] # <<>>)

\* the accumulation list is made of one block per backend whose result was
\* collected, each block that backend's records in its own order
OneBlockPerBackend ==
    /\ NoRepeats(results.databases_queried)
    /\ \A i \in DOMAIN results.databases_queried :
          status[results.databases_queried[i]] = "ok"
    /\ Accumulated = Flatten([i \in DOMAIN results.databases_queried |->
                                 response[results.databases_queried[i]]])
    /\ pc = "returned" => Range(results.databases_queried) = Succeeded

\* C12: in parallel mode the accumulation list holds the records of every
\* succeeding backend exactly once, as one contiguous block in the backend's
\* own order, and the blocks are in the order in which the backends
\* completed
C12_BlocksInCompletionOrder ==
    (fallback_mode = "parallel" /\ pc \in {"collecting", "returned"}) =>
        /\ OneBlockPerBackend
        /\ InOrderOf(BlockOrder, doneQ)

\* the part of C12 that the collecting loop does guarantee: one block per
\* backend, in the order in which as_completed yielded the futures
C12_BlocksInYieldOrder ==
    (fallback_mode = "parallel" /\ pc \in {"collecting", "returned"}) =>
        /\ OneBlockPerBackend
        /\ InOrderOf(BlockOrder, yieldQ)

\* C13: in parallel mode with fail_fast on, once a backend's failure has
\* been collected the backend calls still pending are cancelled (none of
\* them runs to completion) and the error reaches the caller at once
C13_FailFastCancels ==
    (fallback_mode = "parallel" /\ fail_fast /\ pc = "aborting") =>
        /\ ENABLED ExecutorExit
        /\ \A b \in Backends : ~ENABLED (WorkerReturn(b) \/ WorkerRaise(b))

\* what the code does instead: the error reaches the caller only when no
\* submitted call is running any more
C13_ErrorAfterAllCompleted ==
    (fallback_mode = "parallel" /\ fail_fast) =>
        /\ (pc = "aborting" /\ \E b \in Backends : status[b] = "running") =>
              /\ ~ENABLED ExecutorExit
              /\ \A b \in Backends :
                    status[b] = "running" => ENABLED (WorkerReturn(b) \/ WorkerRaise(b))
        /\ pc = "raised" => \A b \in Backends : status[b] \in {"ok", "failed"}

\* C14: in first-only mode the first registered backend is invoked exactly
\* once and no other backend is invoked, whether its call returns records,
\* returns none or fails; when it fails the call raises SearchError with
\* fail_fast on and with fail_fast off
C14_FirstOnly ==
    fallback_mode = "first" =>
        /\ pc \in {"idle", "returned", "raised"}
        /\ pc = "idle" => calls = <<>>
        /\ pc # "idle" => calls = <<clients[1]>>
        /\ \A b \in Backends \ {clients[1]} : status[b] = "idle"
        /\ (pc # "idle" /\ status[clients[1]] = "failed") =>
              pc = "raised" /\ error = "SearchError"
        /\ (pc # "idle" /\ status[clients[1]] = "ok") =>
              pc = "returned" /\ error = "none"
        /\ pc # "idle" => ~ENABLED Next

\* with two backends registered and fail_fast off, the first backend's
\* failure was raised and the second backend was not invoked
C14_Witness ==
    /\ fallback_mode = "first" /\ ~fail_fast
    /\ Len(clients) = 2
    /\ pc = "raised"
    /\ status[clients[1]] = "failed"
    /\ status[clients[2]] = "idle"

\* no two records of a list have the same identity key
NoDuplicateKeys(papers) ==
    \A i, j \in DOMAIN papers : i # j => paper_id(papers[i]) # paper_id(papers[j])

\* the required-field filter as the call applies it
FilterIfRequired(papers) ==
    IF required_fields # {} THEN FilterRequired(papers, required_fields) ELSE papers

\* C15: in every dispatch mode the returned result holds no two records
\* with the same identity key: it is the collected list passed through the
\* deduplicator and then through the required-field filter
C15_DedupInEveryMode ==
    pc = "returned" =>
        /\ NoDuplicateKeys(results.papers)
        /\ results.papers = FilterIfRequired(Deduplicate(collected))

\* the part of C15 that holds: sequential and parallel mode
C15_DedupWhenMerging ==
    (pc = "returned" /\ fallback_mode \in {"sequential", "parallel"}) =>
        /\ NoDuplicateKeys(results.papers)
        /\ results.papers = FilterIfRequired(Deduplicate(collected))
        /\ results.total_results = Len(results.papers)

\* the list the call hands to the required-field filter
BeforeFilter == IF fallback_mode = "first" THEN collected ELSE Deduplicate(collected)

\* field f of the schema is present on record p: source_database is a
\* required str of the schema, set on every record; the others are Optional
Present(p, f) == IF f = "source_database" THEN TRUE ELSE p[f] # None

\* the records of a list on which every required field is present, in order
RECURSIVE WithAllPresent(_, _)
WithAllPresent(papers, required) ==
    IF papers = <<>> THEN <<>>
    ELSE IF \A f \in required : Present(Head(papers), f)
         THEN <<Head(papers)>> \o WithAllPresent(Tail(papers), required)
         ELSE WithAllPresent(Tail(papers), required)

\* C16: when the query lists required fields, of whatever fields of the
\* Paper schema, the returned result holds exactly the records on which
\* every required field is present, in their order, in every dispatch mode;
\* databases_queried is left as it was
C16_RequiredFields ==
    (pc = "returned" /\ required_fields # {}) =>
        /\ results.papers = WithAllPresent(BeforeFilter, required_fields)
        /\ results.total_results = Len(results.papers)
        /\ Range(results.databases_queried) = Succeeded

\* the part of C16 that holds: required fields other than source_database
C16_RequiredFieldsButProvenance ==
    (pc = "returned" /\ required_fields # {} /\ "source_database" \notin required_fields) =>
        /\ results.papers = WithAllPresent(BeforeFilter, required_fields)
        /\ results.total_results = Len(results.papers)
        /\ Range(results.databases_queried) = Succeeded

\* C17: when every backend's search has raised, a sequential or parallel
\* search raises an error instead of returning a result
C17_AllFailedRaises ==
    (fallback_mode \in {"sequential", "parallel"} /\ pc = "returned") =>
        Succeeded # {}

\* what the code does with fail_fast off when every backend failed: it
\* returns an empty result
C17_AllFailedReturnsEmpty ==
    (fallback_mode \in {"sequential", "parallel"} /\ ~fail_fast) =>
        /\ pc # "raised"
        /\ (pc = "returned" /\ Succeeded = {}) =>
              results = EmptyResult /\ error = "none"

\* C18: when every backend succeeds with zero records, a sequential or
\* parallel search never raises, with fail_fast on or off, and what it
\* returns is an empty result with total_results = 0
C18_NoMatchesIsNoError ==
    (fallback_mode \in {"sequential", "parallel"}
        /\ Failed = {} /\ \A b \in Backends : response[b] = <<>>) =>
        /\ pc \notin {"aborting", "raised"}
        /\ error = "none"
        /\ pc = "returned" =>
              /\ results.papers = <<>>
              /\ results.total_results = 0
              /\ Succeeded = Backends
              /\ Range(results.databases_queried) = Backends
        /\ pc # "returned" => ENABLED Next

\* a fail-fast sequential search over two backends that both returned no
\* record has returned
C18_Witness ==
    /\ fallback_mode = "sequential" /\ fail_fast
    /\ Len(clients) = 2
    /\ pc = "returned"
    /\ Succeeded = Backends
    /\ \A b \in Backends : response[b] = <<>>
    /\ results.papers = <<>>

\* a parallel search over two backends that both returned no record has
\* returned
C18_WitnessParallel ==
    /\ fallback_mode = "parallel"
    /\ Len(clients) = 2
    /\ pc = "returned"
    /\ Succeeded = Backends
    /\ \A b \in Backends : response[b] = <<>>
    /\ results.papers = <<>>

\* C19: in sequential mode with fail_fast on, the first failure of a backend
\* ends the call with SearchError and no backend registered after it is
\* invoked; with fail_fast off the call goes on to the next backend
C19_SequentialFailFast ==
    fallback_mode = "sequential" =>
        /\ (fail_fast /\ Failed # {}) =>
              /\ pc = "raised"
              /\ error = "SearchError"
              /\ status[calls[Len(calls)]] = "failed"
              /\ Cardinality(Failed) = 1
              /\ calls = SubSeq(clients, 1, Len(calls))
              /\ \A i \in (Len(calls) + 1)..Len(clients) : status[clients[i]] = "idle"
              /\ ~ENABLED Next
        /\ (~fail_fast /\ Failed # {}) =>
              /\ pc \in {"sequential", "returned"}
              /\ error = "none"
              /\ pc = "sequential" =>
                    /\ idx = Len(calls) + 1
                    /\ idx <= Len(clients)
                    /\ ENABLED (SequentialResult \/ SequentialFailure)

\* a fail-fast sequential search raised at its first backend and the second
\* was not invoked
C19_Witness ==
    /\ fallback_mode = "sequential" /\ fail_fast
    /\ Len(clients) = 2
    /\ pc = "raised"
    /\ calls = <<clients[1]>>
    /\ status[clients[2]] = "idle"

\* without fail_fast the first backend failed and the second was invoked
C19_WitnessContinue ==
    /\ fallback_mode = "sequential" /\ ~fail_fast
    /\ Len(clients) = 2
    /\ status[clients[1]] = "failed"
    /\ status[clients[2]] = "ok"
    /\ pc = "returned"

\* C20: after the merge no two records of the result have the same
\* non-empty DOI: of the records with one DOI the first seen is kept and
\* total_results counts it once
C20_DedupByDoi ==
    (pc = "returned" /\ fallback_mode \in {"sequential", "parallel"}) =>
        /\ results.total_results = Len(results.papers)
        /\ \A i, j \in DOMAIN results.papers :
              (i # j /\ Truthy(results.papers[i].doi)) =>
                  results.papers[i].doi # results.papers[j].doi

\* the part of C20 that holds: records with the same DOI and the same other
\* identifiers and lower-cased title are merged into the first seen
C20_DedupBySameKey ==
    (pc = "returned" /\ fallback_mode \in {"sequential", "parallel"}
        /\ required_fields = {}) =>
        /\ results.total_results = Len(results.papers)
        /\ NoDuplicateKeys(results.papers)
        /\ \A i \in DOMAIN collected :
              AnyId(paper_id(collected[i])) =>
                  \E k \in DOMAIN results.papers :
                      /\ paper_id(results.papers[k]) = paper_id(collected[i])
                      /\ \E j \in 1..i :
                            /\ collected[j] = results.papers[k]
                            /\ \A h \in 1..(j - 1) :
                                  paper_id(collected[h]) # paper_id(collected[j])

(***************************************************************************)
(* Further properties of the deduplicator (SpecResult).                    *)
(***************************************************************************)
\* str.strip() of the blanks at both ends
RECURSIVE TrimLeft(_)
TrimLeft(s) == IF s # <<>> /\ Head(s) = " " THEN TrimLeft(Tail(s)) ELSE s

RECURSIVE TrimRight(_)
TrimRight(s) ==
    IF s # <<>> /\ s[Len(s)] = " " THEN TrimRight(SubSeq(s, 1, Len(s) - 1)) ELSE s

Trim(s) == TrimRight(TrimLeft(s))

\* the identity key with the title lower-cased and trimmed
TrimmedKey(p) ==
    << OrEmpty(p.doi), OrEmpty(p.pmid), OrEmpty(p.arxiv_id),
       IF p.title # <<>> THEN Trim(Lower(p.title)) ELSE <<>> >>

\* two records have the same identifiers and titles that differ in letter
\* case only
SameButCase(p, q) ==
    /\ p.doi = q.doi /\ p.pmid = q.pmid /\ p.arxiv_id = q.arxiv_id
    /\ Lower(p.title) = Lower(q.title)

\* C21: after deduplication no two records are left whose DOI, PMID and
\* arXiv id are equal and whose titles are equal once lower-cased and
\* trimmed: of such records only the first is kept
C21_TrimmedTitleKey ==
    sr_op = "deduplicate" =>
        \A i, j \in DOMAIN sr.papers :
            i # j => TrimmedKey(sr.papers[i]) # TrimmedKey(sr.papers[j])

\* the part of C21 that holds: titles that differ in letter case only
C21_LowerCasedTitleKey ==
    sr_op = "deduplicate" =>
        \A i, j \in DOMAIN sr.papers :
            (i # j /\ AnyId(paper_id(sr.papers[i]))) =>
                ~SameButCase(sr.papers[i], sr.papers[j])

\* C22: total_results = len(papers) on a SearchResult that started empty,
\* after every add_paper, extend, deduplication and required-field filter
\* and after any sequence of them
C22_TotalIsLength ==
    sr.total_results = Len(sr.papers)

\* a result built with add_paper and extend lost records to the
\* deduplicator and its total_results followed
C22_Witness ==
    /\ sr_op = "deduplicate"
    /\ sr_prev_op = "extend"
    /\ Len(sr_prev) = 3
    /\ Len(sr.papers) = 1
    /\ sr.total_results = 1

\* C22 for the SearchResult that search returns, in every dispatch mode
C22_SearchTotalIsLength ==
    pc = "returned" => results.total_results = Len(results.papers)

\* C22 for the SearchResult that batch_lookup returns
C22_BatchTotalIsLength ==
    /\ results.total_results = Len(results.papers)
    /\ pc = "returned" => results.papers = Deduplicate(collected)

(***************************************************************************)
(* C23.  For every result set and every field in the dictionary            *)
(* field_statistics returns, 0 <= available_count <= total_count,          *)
(* total_count is the number of papers, and percentage is                  *)
(* available_count / total_count * 100, a value in [0, 100].               *)
(***************************************************************************)
C23_StatisticsBounds ==
    sr_op = "field_statistics" =>
        \A f \in DOMAIN stats :
            LET s == stats[f]
                num == s.percentage[1]
                den == s.percentage[2]
            IN  /\ 0 <= s.available_count
                /\ s.available_count <= s.total_count
                /\ s.total_count = Len(sr.papers)
                /\ den > 0
                /\ num * s.total_count = s.available_count * 100 * den
                /\ 0 <= num
                /\ num <= 100 * den

\* statistics over three papers, one field on all of them, one on one only
C23_Witness ==
    /\ sr_op = "field_statistics"
    /\ Len(sr.papers) = 3
    /\ "abstract" \in DOMAIN stats
    /\ stats["abstract"].available_count = 1
    /\ stats["title"].available_count = 3

(***************************************************************************)
(* C24.  For a non-empty result set field_statistics yields one statistic  *)
(* per schema field, its available_count the number of papers in which     *)
(* that field is non-null (non-empty for a list field), whatever the other *)
(* fields are; for an empty result set it yields an empty dictionary.      *)
(***************************************************************************)
\* the number of papers whose field f is present
PresentCount(papers, f) ==
    Cardinality({i \in 1..Len(papers) :
                    /\ papers[i][f] # None
                    /\ f \in ListFields => papers[i][f] # <<>>})

C24_OnePerSchemaField ==
    sr_op = "field_statistics" =>
        IF sr.papers = <<>>
        THEN DOMAIN stats = {}
        ELSE /\ DOMAIN stats = PaperFields
             /\ \A f \in PaperFields :
                    stats[f].available_count = PresentCount(sr.papers, f)

\* what the code computes: a statistic for each field that is available on
\* at least one paper, with the number of papers it is available on
C24_OnePerAvailableField ==
    sr_op = "field_statistics" =>
        /\ DOMAIN stats =
               {f \in PaperFields \ {"source_database"} :
                   PresentCount(sr.papers, f) > 0}
        /\ \A f \in DOMAIN stats :
               stats[f].available_count = PresentCount(sr.papers, f)

(***************************************************************************)
(* C25.  When the retry ceiling is reached, the error raised to the caller *)
(* is the error of the last attempt, unchanged: same type and payload, not *)
(* wrapped, and not the error of an earlier attempt.                       *)
(***************************************************************************)
C25_LastErrorPropagates ==
    (rt_pc = "raised" /\ retries > max_retries) =>
        /\ rt_raised = rt_last
        /\ rt_raised.attempt = attempts
        /\ attempts = max_retries + 1
        /\ IsInstance(rt_raised, retry_on)

\* after two retried failures the third invocation raised a rate-limit error
\* carrying a retry-after: that is the error the caller got
C25_Witness ==
    /\ rt_pc = "raised"
    /\ max_retries = 2
    /\ retries = 3
    /\ rt_raised = [kind |-> "RateLimitError", retry_after |-> 5, attempt |-> 3]

(***************************************************************************)
(* C26.  With jitter off, the delay taken before retry number a (1-based)  *)
(* is min(initial_delay * exponential_base^(a-1), max_delay), raised to    *)
(* the retry-after of the failure when it carries a larger one; the delay  *)
(* is never below a supplied retry-after, and it is the delay              *)
(* RetryHandler.calculate_delay gives for the same attempt.                *)
(***************************************************************************)
\* the retry-after a failure carries, in milliseconds, 0 for none
SuppliedWait(e) ==
    IF e.kind = "RateLimitError" THEN e.retry_after * 1000 ELSE 0

\* initial_delay * exponential_base^(a-1), capped
CappedBackoff(a) ==
    LET d == InitialDelay * Pow(ExponentialBase, a - 1)
    IN  IF d < max_delay THEN d ELSE max_delay

C26_BackoffDelay ==
    rt_pc = "sleeping" =>
        /\ current_delay >= SuppliedWait(rt_last)
        /\ ~jitter =>
              /\ current_delay =
                     IF SuppliedWait(rt_last) > CappedBackoff(retries)
                     THEN SuppliedWait(rt_last)
                     ELSE CappedBackoff(retries)
              /\ current_delay =
                     calculate_delay(retries, rt_last.retry_after, 1000)
        /\ jitter =>
              \E f \in JitterFactors :
                  current_delay = calculate_delay(retries, rt_last.retry_after, f)

\* the third retry without jitter, of a rate-limit error whose retry-after
\* of 5 s is above the max_delay of 3 s
C26_Witness ==
    /\ rt_pc = "sleeping"
    /\ ~jitter
    /\ max_delay = 3000
    /\ retries = 3
    /\ rt_last.kind = "RateLimitError"
    /\ rt_last.retry_after = 5
    /\ current_delay = 5000

\* the second retry without jitter and without retry-after: 1 s * 2
C26_WitnessPlain ==
    /\ rt_pc = "sleeping"
    /\ ~jitter
    /\ retries = 2
    /\ rt_last.kind = "APIError"
    /\ current_delay = 2000

(***************************************************************************)
(* C27.  A limiter configured with no caps is a no-op: every               *)
(* wait_if_needed call returns without blocking, and no call changes the   *)
(* limiter's state (no timestamp is recorded), after any number of calls.  *)
(***************************************************************************)
C27_NoCapsNoOp ==
    (requests_per_second = 0 /\ requests_per_minute = 0) =>
        /\ second_window = <<>>
        /\ minute_window = <<>>
        /\ lock = "free"
        /\ \A t \in Threads :
              /\ lt_pc[t] # "sleeping"
              /\ ~ENABLED LimSleep(t)
              /\ lt_pc[t] = "blocked" => ENABLED LimAdmit(t)
        /\ Len(admitted) + Cardinality({t \in Threads : lt_pc[t] = "blocked"}) = ncalls

\* MaxCalls calls on a limiter without caps have all returned, several of
\* them at the same clock reading
C27_Witness ==
    /\ requests_per_second = 0
    /\ requests_per_minute = 0
    /\ ncalls = MaxCalls
    /\ Len(admitted) = MaxCalls
    /\ admitted[1] = admitted[MaxCalls]

(***************************************************************************)
(* C28.  The orchestrator never retries: during one search call each       *)
(* registered backend's search is invoked at most once in every mode,      *)
(* exactly once per backend in parallel mode, and a backend that failed is *)
(* not invoked again but only left out of the merge.                       *)
(***************************************************************************)
\* how many times the search of backend b was invoked
Invocations(b) == Cardinality({i \in DOMAIN calls : calls[i] = b})

C28_NoOrchestratorRetry ==
    /\ \A b \in Backends : Invocations(b) <= 1
    /\ Range(calls) \subseteq Backends
    /\ \A b \in Backends : status[b] # "idle" => Invocations(b) = 1
    /\ (fallback_mode = "parallel" /\ pc # "idle") =>
          \A b \in Backends : Invocations(b) = 1
    /\ (fallback_mode = "parallel" /\ pc \in {"returned", "raised"}) =>
          Backends = Succeeded \cup Failed
    /\ \A b \in Failed :
          /\ Invocations(b) = 1
          /\ b \notin Range(results.databases_queried)
          /\ \A i \in DOMAIN results.papers : results.papers[i].source_database # b

\* a parallel search returned the records of one backend while the other,
\* invoked once, had failed
C28_Witness ==
    /\ fallback_mode = "parallel" /\ pc = "returned"
    /\ Len(clients) = 2 /\ Len(calls) = 2
    /\ status[clients[1]] = "failed"
    /\ status[clients[2]] = "ok"
    /\ results.papers # <<>>

\* a sequential search went past a failed backend and an empty one
C28_WitnessSequential ==
    /\ fallback_mode = "sequential" /\ pc = "returned"
    /\ calls = clients /\ Len(clients) = 2
    /\ status[clients[1]] = "failed"
    /\ status[clients[2]] = "ok"
    /\ results.papers = <<>>

(***************************************************************************)
(* C29.  In every result of a sequential search all records of an          *)
(* earlier-registered backend precede all records of a later-registered    *)
(* one, and databases_queried lists the succeeding backends in             *)
(* registration order; deduplication and required-field filtering keep     *)
(* this order.                                                             *)
(***************************************************************************)
\* the records of list q come in the registration order of their backends
InRegistrationOrder(q) ==
    \A i, j \in DOMAIN q :
        i < j => PosIn(clients, q[i].source_database)
                    <= PosIn(clients, q[j].source_database)

\* list q holds records of list r only, in the order they have in r
KeepsOrderOf(q, r) ==
    \E f \in [DOMAIN q -> DOMAIN r] :
        /\ \A i \in DOMAIN q : r[f[i]] = q[i]
        /\ \A i, j \in DOMAIN q : i < j => f[i] < f[j]

C29_SequentialOrder ==
    (fallback_mode = "sequential" /\ pc \in {"sequential", "returned"}) =>
        /\ InRegistrationOrder(results.papers)
        /\ InOrderOf(results.databases_queried, clients)
        /\ NoRepeats(results.databases_queried)
        /\ Range(results.databases_queried) = Succeeded
        /\ pc = "returned" =>
              /\ InRegistrationOrder(collected)
              /\ collected = Flatten([i \in DOMAIN results.databases_queried |->
                                         response[results.databases_queried[i]]])
              /\ KeepsOrderOf(results.papers, collected)

\* a sequential search with a required field returned one record of each
\* of two backends
C29_Witness ==
    /\ fallback_mode = "sequential" /\ pc = "returned"
    /\ required_fields = {"abstract"}
    /\ Len(clients) = 2
    /\ results.databases_queried = clients
    /\ Len(results.papers) = 2
    /\ results.papers[1].source_database = clients[1]
    /\ results.papers[2].source_database = clients[2]

(***************************************************************************)
(* C30.  SessionPool.get_session returns the same session object for the   *)
(* same database name on every call until that session is closed, and      *)
(* different objects for different names, also under concurrent calls: no  *)
(* interleaving makes two threads create two sessions for one name.        *)
(***************************************************************************)
\* the session of name db was closed between events i and j of the log
ClosedBetween(db, i, j) ==
    \E k \in (i + 1)..(j - 1) : sp_log[k].op = "close" /\ sp_log[k].db = db

C30_OneSessionPerName ==
    /\ \A i, j \in DOMAIN sp_log :
          (i < j /\ sp_log[i].op = "get" /\ sp_log[j].op = "get") =>
              IF sp_log[i].db = sp_log[j].db
              THEN ClosedBetween(sp_log[i].db, i, j)
                      \/ sp_log[i].session = sp_log[j].session
              ELSE sp_log[i].session # sp_log[j].session
    /\ \A i, j \in DOMAIN sp_log :
          (i < j /\ sp_log[i].op = "create" /\ sp_log[j].op = "create"
                 /\ sp_log[i].db = sp_log[j].db) =>
              ClosedBetween(sp_log[i].db, i, j)
    /\ \A i \in DOMAIN sp_log : sp_log[i].op = "get" => sp_log[i].session # 0
    /\ \A a, b \in DOMAIN sessions : a # b => sessions[a] # sessions[b]

\* two threads asked for the session of one name at the same time, one
\* created it and both got it
C30_Witness ==
    /\ Len(sp_log) = 3
    /\ sp_log[1].op = "create"
    /\ sp_log[2].op = "get" /\ sp_log[3].op = "get"
    /\ sp_log[2].session = sp_log[3].session
    /\ sp_op = [t \in Threads |-> "get"]
    /\ sp_db = [t \in Threads |-> "openalex"]
    /\ sp_ncalls = 2

\* one thread is creating the session of a name while the other waits at the
\* lock with a get_session of the same name
C30_WitnessContended ==
    /\ sp_pc["t1"] = "created"
    /\ pool_lock = "t1"
    /\ sp_pc["t2"] = "waiting"
    /\ sp_op["t2"] = "get"
    /\ sp_db["t2"] = sp_db["t1"]

\* a session was closed and the next get_session of the name made a new one
C30_WitnessReopened ==
    /\ Len(sp_log) = 5
    /\ sp_log[2].op = "get"
    /\ sp_log[3].op = "close"
    /\ sp_log[5].op = "get"
    /\ sp_log[5].db = sp_log[2].db
    /\ sp_log[5].session # sp_log[2].session

(***************************************************************************)
(* C31.  An invalid execution policy is rejected with ConfigurationError   *)
(* when the client is constructed, not per call; under an invalid policy   *)
(* no backend is ever invoked.                                             *)
(***************************************************************************)
\* the three policies search_with_filters dispatches on
ValidModes == {"sequential", "parallel", "first"}

C31_InvalidPolicyRejectedAtSetup ==
    /\ error # "ConfigurationError"
    /\ pc # "idle" => fallback_mode \in ValidModes
    /\ fallback_mode \notin ValidModes => calls = <<>>

\* what the code does: the client is constructed with the invalid policy,
\* and each search call on it raises ConfigurationError before any backend
\* is invoked
C31_InvalidPolicyRejectedPerCall ==
    fallback_mode \notin ValidModes =>
        /\ pc \in {"idle", "raised"}
        /\ pc = "raised" => error = "ConfigurationError"
        /\ calls = <<>>
        /\ \A b \in Backends : status[b] = "idle"
        /\ results = EmptyResult

(***************************************************************************)
(* C32.  batch_lookup honours the fail-fast flag: with fail_fast set, a    *)
(* backend failure during the lookup propagates to the caller; without it  *)
(* the failing backend is skipped, left out of databases_queried, and the  *)
(* records of the remaining backends are merged and deduplicated.          *)
(***************************************************************************)
\* the merge batch_lookup returns: the blocks of the succeeding backends in
\* registration order, deduplicated
BatchSkipsFailures ==
    /\ pc # "raised"
    /\ error = "none"
    /\ pc = "returned" =>
          /\ Backends = Succeeded \cup Failed
          /\ results.databases_queried = SelectSeq(clients, LAMBDA b : b \in Succeeded)
          /\ collected = Flatten([i \in DOMAIN results.databases_queried |->
                                     response[results.databases_queried[i]]])
          /\ results.papers = Deduplicate(collected)
          /\ results.total_results = Len(results.papers)

C32_BatchHonoursFailFast ==
    /\ (fail_fast /\ Failed # {}) => pc = "raised"
    /\ ~fail_fast => BatchSkipsFailures

\* what the code does: it skips the failing backend whatever fail_fast is
C32_BatchIgnoresFailFast == BatchSkipsFailures

(***************************************************************************)
(* C33.  For a StreamingExporter, write_paper succeeds only between open   *)
(* and close: in the closed state it raises ExportError and changes        *)
(* nothing; while open, the count is the number of write_paper calls that  *)
(* succeeded since the last open; close returns the exporter to the closed *)
(* state with count 0, also when the underlying close fails; close in the  *)
(* closed state is a no-op, so every cycle starts at count 0.              *)
(***************************************************************************)
\* everything the claim says but the count while open
ExporterStates ==
    /\ (ex_last.op = "write_paper" /\ ex_last.handle = "None") =>
          /\ ex_last.raised
          /\ file_handle = "None"
          /\ ex_count = ex_last.count
    /\ (ex_last.op = "write_paper" /\ ~ex_last.raised) =>
          /\ ex_last.handle # "None"
          /\ file_handle # "None"
          /\ ex_count = ex_last.count + 1
    /\ ex_last.op = "close" =>
          /\ file_handle = "None"
          /\ ex_count = 0
          /\ ex_last.handle = "None" => ~ex_last.raised
    /\ file_handle = "None" => ex_count = 0

C33_CountSinceLastOpen ==
    /\ ExporterStates
    /\ file_handle # "None" => ex_count = ex_written

\* what the code keeps: the number of write_paper calls that succeeded since
\* the exporter was last closed, whatever open calls came in between
C33_CountSinceLastClosed ==
    /\ ExporterStates
    /\ ex_count = ex_session

(***************************************************************************)
(* C34.  A per-call mode override is temporary: after search(mode=m)       *)
(* returns or raises (ConfigurationError for an invalid m, SearchError     *)
(* from a backend) the client's fallback_mode is what it was before the    *)
(* call, and a search without override leaves it unchanged.  The calls are *)
(* made one at a time.                                                     *)
(***************************************************************************)
\* the mode a call asks for: its argument, or the client's own
Asked(t) == IF ov_arg[t] # "None" THEN ov_arg[t] ELSE ov_before

\* the branch search_with_filters takes for a mode
BranchOf(m) == IF m \in ValidModes THEN m ELSE "else"

C34_OverrideIsTemporary ==
    ~ov_overlap =>
        /\ (\A t \in Threads : ov_pc[t] = "idle") => fallback_mode = ov_before
        /\ \A t \in Threads :
              /\ (ov_pc[t] # "idle" /\ ov_arg[t] = "None") => fallback_mode = ov_before
              /\ ov_pc[t] # "idle" => ov_original[t] = ov_before
              /\ ov_dispatched[t] # "none" => ov_dispatched[t] = BranchOf(Asked(t))

\* the third of three calls made one after the other, with an invalid mode,
\* has raised ConfigurationError and the second, with a valid one, had raised
\* SearchError; the client of mode "first" is back at "first"
C34_Witness ==
    /\ ~ov_overlap
    /\ ov_ncalls = 3
    /\ \A t \in Threads : ov_pc[t] = "idle"
    /\ ov_arg["t1"] = "bogus" /\ ov_outcome["t1"] = "ConfigurationError"
    /\ ov_arg["t2"] = "parallel" /\ ov_outcome["t2"] = "SearchError"
    /\ ov_before = "first"
    /\ fallback_mode = "first"

(***************************************************************************)
(* C35.  When two threads call search on the same client concurrently with *)
(* different mode overrides, each call is dispatched with the mode it      *)
(* asked for, and after both calls have finished the client's              *)
(* fallback_mode is what it was before the calls, under every              *)
(* interleaving.                                                           *)
(***************************************************************************)
\* each thread has made one call, the two with different mode overrides
TwoOverridingCalls ==
    /\ ov_ncalls = 2
    /\ \A t \in Threads : ov_arg[t] # "None"
    /\ ov_arg["t1"] # ov_arg["t2"]

C35_ConcurrentOverrides ==
    TwoOverridingCalls =>
        /\ (\A t \in Threads : ov_pc[t] = "idle") => fallback_mode = ov_before
        /\ \A t \in Threads :
              ov_dispatched[t] # "none" => ov_dispatched[t] = BranchOf(ov_arg[t])

\* what holds under every interleaving: the attribute only ever has the
\* value it had before the calls or one of the modes passed
C35_ModeIsSomeCallersMode ==
    fallback_mode \in {ov_before} \cup (ModeArgs \ {"None"})


(***************************************************************************)
(* C36: a cap that is not a whole number                                   *)
(***************************************************************************)
\* the admissions later than `from` and no later than `to`
AdmittedWithin(from, to) ==
    { j \in 1..Len(fr_admitted) : fr_admitted[j] > from /\ fr_admitted[j] <= to }

\* C36: with requests_per_second = num/den the limiter admits no more than
\* num requests in any den seconds: every interval of den seconds that ends
\* at an admission holds at most num admissions (one per 2 seconds for 0.5).
C36_FractionalCapEnforced ==
    \A i \in 1..Len(fr_admitted) :
        Cardinality(AdmittedWithin(fr_admitted[i] - SecondWindow * fr_cap[2],
                                   fr_admitted[i])) <= fr_cap[1]


(***************************************************************************)
(* C37: every wait_if_needed call returns                                  *)
(***************************************************************************)
\* C37: under a fair lock and advancing time, every thread that has called
\* wait_if_needed and waits for the limiter's lock is eventually admitted
\* and returns, also while another thread sleeps holding the lock.
C37_EveryCallAdmitted ==
    \A t \in Threads : (lt_pc[t] = "blocked") ~> (lt_pc[t] = "idle")

\* a thread waits for the lock while another sleeps holding it, on a limiter
\* with a cap
C37_Witness ==
    \E t, u \in Threads :
        /\ t # u
        /\ lt_pc[t] = "sleeping"
        /\ lock = t
        /\ lt_pc[u] = "blocked"
        /\ (requests_per_second # 0 \/ requests_per_minute # 0)


(***************************************************************************)
(* C38: get_by_doi returns the first paper found                           *)
(***************************************************************************)
\* the backends a get_by_doi call selects: the registered ones among the
\* names passed, in the order passed, or every backend when none is passed
GdSelected ==
    IF gd_databases = None \/ gd_databases = <<>>
    THEN gd_clients
    ELSE SelectSeq(gd_databases, LAMBDA n : n \in Range(gd_clients))

GdYielded == { i \in DOMAIN gd_calls : gd_calls[i].outcome = "paper" }

\* C38: get_by_doi invokes the selected backends in order; a backend that
\* raises or returns nothing is followed by the next one; the call returns
\* the paper of the first backend that yields one, invoking none after it;
\* and it returns None, without raising, when no backend yields a paper.
C38_FirstPaperWins ==
    /\ gd_pc # "raised"
    /\ Len(gd_calls) <= Len(GdSelected)
    /\ \A i \in DOMAIN gd_calls : gd_calls[i].db = GdSelected[i]
    /\ \A i \in GdYielded : i = Len(gd_calls)
    /\ gd_pc = "returned" =>
          IF GdYielded # {}
          THEN gd_result = PaperOf(gd_calls[Len(gd_calls)].db)
          ELSE gd_result = NoPaper /\ Len(gd_calls) = Len(GdSelected)

\* the first backend raised and the paper of the second was returned
C38_Witness ==
    /\ gd_pc = "returned"
    /\ Len(gd_calls) = 2
    /\ gd_calls[1].outcome = "raised"
    /\ gd_result = PaperOf(gd_calls[2].db)

\* every backend raised and None was returned
C38_WitnessAllRaise ==
    /\ gd_pc = "returned"
    /\ Len(gd_calls) = 2
    /\ \A i \in DOMAIN gd_calls : gd_calls[i].outcome = "raised"
    /\ gd_result = NoPaper


(***************************************************************************)
(* C39: the pool holds one session per name requested since its last close *)
(***************************************************************************)
\* the event closes the session of db, if there is one: close_session(db),
\* close_all_sessions() or reset()
ClosesName(e, db) ==
    \/ e.op \in {"close", "close_miss"} /\ e.db = db
    \/ e.op \in {"close_all", "reset"}

\* the names requested in the first n events and not closed since
RequestedSinceClose(n) ==
    { db \in PoolNames :
        \E i \in 1..n :
            /\ sp_log[i].op \in {"create", "get"}
            /\ sp_log[i].db = db
            /\ \A k \in (i + 1)..n : ~ClosesName(sp_log[k], db) }

\* C39: the pool holds a session for exactly the names requested since they
\* were last closed by close_session, close_all_sessions or reset, so that
\* closing a name without session changes nothing; every get_pool_size
\* returned the number of these names; and a get_session after a close
\* returned a session that is not the closed one.
C39_PoolHoldsRequestedNames ==
    /\ DOMAIN sessions = RequestedSinceClose(Len(sp_log))
    /\ \A i \in DOMAIN sp_log :
          sp_log[i].op = "size" =>
              sp_log[i].size = Cardinality(RequestedSinceClose(i - 1))
    /\ \A i, j \in DOMAIN sp_log :
          (i < j /\ sp_log[i].op = "close" /\ sp_log[j].op = "get"
                 /\ sp_log[i].db = sp_log[j].db) =>
              sp_log[j].session # sp_log[i].session

\* two names were requested, close_all_sessions emptied the pool, a name
\* was requested again and get_pool_size returned 1
C39_Witness ==
    /\ \E i, j \in DOMAIN sp_log :
          /\ i < j
          /\ sp_log[i].op = "close_all"
          /\ sp_log[j].op = "size"
          /\ sp_log[j].size = 1
          /\ \E k \in 1..(i - 1) : sp_log[k].op = "close"
    /\ Cardinality(DOMAIN sessions) = 1

\* close_session of a name without session returned
C39_WitnessUnknown ==
    \E i \in DOMAIN sp_log : sp_log[i].op = "close_miss"


(***************************************************************************)
(* C40: the counters of PDFDownloader                                      *)
(***************************************************************************)
PdOutcomes == pd_stats.successful + pd_stats.failed + pd_stats.skipped

\* C40: after any sequence of download_paper calls attempted equals
\* successful + failed + skipped, every call having added one to attempted
\* and one to exactly one of the three outcome counters, and a call returns
\* a path only when it counted as successful or skipped.
C40_CountersBalance ==
    /\ pd_stats.attempted = pd_ncalls
    /\ pd_stats.attempted = PdOutcomes
    /\ pd_ncalls > 0 => pd_last.counted \in {"successful", "failed", "skipped"}
    /\ pd_last.returned = "path" => pd_last.counted \in {"successful", "skipped"}

\* what the code keeps: the calls that returned are balanced, and each call
\* that raised before the try block is counted in attempted only
C40_BalanceButForRaisedCalls ==
    /\ pd_stats.attempted = pd_ncalls
    /\ pd_stats.attempted = PdOutcomes + pd_raised
    /\ pd_last.returned # "raised" =>
          (pd_ncalls > 0 => pd_last.counted \in {"successful", "failed", "skipped"})
    /\ pd_last.returned = "path" => pd_last.counted \in {"successful", "skipped"}

====
